---------------------------- MODULE Spec2Model ----------------------------
(***************************************************************************)
(* A model of ZetaRay's per-frame render graph (RenderGraph.cpp) and of    *)
(* the worker pool that executes the task graph it emits (ThreadPool.cpp). *)
(*                                                                         *)
(* Arrays of the program are functions over 0..n-1 so that indices keep    *)
(* the values they have in the code (-1 is "invalid").  Lists that the     *)
(* code only appends to and iterates over are sequences.  A resource       *)
(* state (D3D12_RESOURCE_STATES) is the set of its bits: "&" is           *)
(* intersection and COMMON/PRESENT (zero) is the empty set.                *)
(***************************************************************************)
EXTENDS Integers, Sequences, FiniteSets, TLC

(***************************************************************************)
(* Bounds of the model.  The first three stand for the capacities of the   *)
(* program's fixed-size tables, whose real values are far larger.          *)
(***************************************************************************)
MAX_NUM_RESOURCES == 6
MAX_NUM_RENDER_PASSES == 6
MAX_NUM_PRODUCERS == 2
MaxFrames == 2
MaxResPasses == 1
MaxRemoves == 1
MaxGraphPasses == 3
MaxGraphDeps == 4
NumWorkers == 2
MaxTasks == 2

(* Values of the header that declares the tables. *)
DUMMY_RES_COUNT == 2
INVALID_ID == 1000
INVALID_NODE_HANDLE == -1

Range(f) == {f[x] : x \in DOMAIN f}
Max(a, b) == IF a >= b THEN a ELSE b
Min(a, b) == IF a <= b THEN a ELSE b

(***************************************************************************)
(* Resource states                                                         *)
(***************************************************************************)
COMMON == {}
PRESENT == {}
RENDER_TARGET == {"RT"}
UNORDERED_ACCESS == {"UAV"}
DEPTH_WRITE == {"DW"}
DEPTH_READ == {"DR"}
NON_PIXEL_SHADER_RESOURCE == {"SR_NP"}
PIXEL_SHADER_RESOURCE == {"SR_P"}
ALL_SHADER_RESOURCE == {"SR_NP", "SR_P"}
COPY_DEST == {"COPY_DEST"}
COPY_SOURCE == {"COPY_SRC"}
READ_STATES == {"SR_NP", "SR_P", "IB", "VCB", "COPY_SRC"}
WRITE_STATES == {"RT", "UAV", "DW", "COPY_DEST"}
INVALID_COMPUTE_STATES == {"RT", "DR", "DW", "SR_P"}

NullRes == "null"

\* native resources (ID3D12Resource*) the clients of the model use
Handles == {NullRes, "a", "b", "r4", "r5", "r6", "r7", "r8"}

VARIABLES
    frameResources,          \* m_frameResources: 0..MAX_NUM_RESOURCES-1 -> metadata
    prevFramesNumResources,  \* m_prevFramesNumResources
    lastResIdx,              \* m_lastResIdx
    inBeginEndBlock,         \* m_inBeginEndBlock
    inPreRegister,           \* m_inPreRegister
    renderNodes,             \* m_renderNodes: 0..MAX_NUM_RENDER_PASSES-1 -> node
    currRenderPassIdx,       \* m_currRenderPassIdx
    mapping,                 \* m_mapping: handle -> index in execution order
    aggregateNodes,          \* m_aggregateNodes (a sequence, index i of the code is i+1)
    taskEdges,               \* edges added to the TaskSet by BuildTaskGraph
    failed,                  \* "none", or the assertion that ended the program
    frameNo,                 \* number of BeginFrame calls so far
    taskQueue,               \* m_taskQueue: the tasks (aggregate indices) enqueued
    numTasksInQueue,         \* m_numTasksInQueue
    numTasksFinished,        \* m_numTasksFinished
    numTasksToFinishTarget,  \* m_numTasksToFinishTarget
    signals,                 \* per task: inbound signals it still waits for
    threads,                 \* per thread: where it is (pc) and the task it holds
    shutdown,                \* m_shutdown
    mergedCmdLists,          \* m_mergedCmdLists: slot -> command list or NullCmd
    submissionWaitObj,       \* m_submissionWaitObj is not nullptr
    resState,                \* per native resource: state left by the barriers recorded
    exec,                    \* what execution did (submissions, lookups, callbacks)
    scenario,                \* the client's script
    NDEBUG,                  \* the build compiles the assertions out
    background,              \* signal handles of the tasks of priority BACKGROUND
    client                   \* what the client did (registered ids, last call)

resVars == <<frameResources, prevFramesNumResources, lastResIdx,
             inBeginEndBlock, inPreRegister>>
nodeVars == <<renderNodes, currRenderPassIdx, mapping, aggregateNodes, taskEdges>>
poolVars == <<taskQueue, numTasksInQueue, numTasksFinished, numTasksToFinishTarget,
              signals, threads, shutdown>>
runVars == <<poolVars, mergedCmdLists, submissionWaitObj, exec>>
envVars == <<scenario, NDEBUG, background>>
vars == <<resVars, nodeVars, failed, frameNo, runVars, resState, envVars, client>>

(***************************************************************************)
(* Resource table                                                          *)
(***************************************************************************)
ResIdx == 0 .. (MAX_NUM_RESOURCES - 1)

\* ResourceMetadata::Reset()
EmptyRes ==
    [ID |-> INVALID_ID, Res |-> NullRes, State |-> COMMON,
     IsWindowSizeDependent |-> FALSE, Producers |-> <<>>]

\* ResourceMetadata::Reset(id, res, state, isWindowSizeDependent)
NewRes(path, res, initState, wsd) ==
    [ID |-> path, Res |-> res, State |-> initState,
     IsWindowSizeDependent |-> wsd, Producers |-> <<>>]

\* Util::BinarySearch over the inclusive index range [beg, end] of fr
RECURSIVE BinarySearch(_, _, _, _)
BinarySearch(fr, key, beg, end) ==
    IF end < beg THEN -1
    ELSE LET mid == (beg + end) \div 2
         IN  IF fr[mid].ID = key THEN mid
             ELSE IF fr[mid].ID < key THEN BinarySearch(fr, key, mid + 1, end)
             ELSE BinarySearch(fr, key, beg, mid - 1)

\* RenderGraph::FindFrameResource(key, beg, end); last is m_lastResIdx
FindFrameResource(fr, last, key, beg, end) ==
    IF end - beg = 0 THEN -1
    ELSE LET e == IF end = -1 THEN last - 1 ELSE end
         IN  BinarySearch(fr, key, beg, e)

\* the call with the default arguments beg = 0, end = -1
FindFrameResourceAll(fr, last, key) == FindFrameResource(fr, last, key, 0, -1)

(***************************************************************************)
(* std::sort of a range: the indices 1..Len(keys) ordered by key.  Ranges  *)
(* this short are sorted by insertion, which keeps equal keys in order.    *)
(***************************************************************************)
RECURSIVE InsertIdx(_, _, _)
InsertIdx(sorted, i, keys) ==
    IF sorted = <<>> THEN <<i>>
    ELSE IF keys[Head(sorted)] <= keys[i]
         THEN <<Head(sorted)>> \o InsertIdx(Tail(sorted), i, keys)
         ELSE <<i>> \o sorted

RECURSIVE SortIdxUpTo(_, _)
SortIdxUpTo(keys, n) ==
    IF n = 0 THEN <<>> ELSE InsertIdx(SortIdxUpTo(keys, n - 1), n, keys)

SortIdx(keys) == SortIdxUpTo(keys, Len(keys))

\* std::sort(m_frameResources.begin(), m_frameResources.begin() + n, by ID)
SortResources(fr, n) ==
    IF n <= 1 THEN fr
    ELSE LET keys == [i \in 1..n |-> fr[i - 1].ID]
             perm == SortIdx(keys)
         IN  [i \in ResIdx |-> IF i < n THEN fr[perm[i + 1] - 1] ELSE fr[i]]



(***************************************************************************)
(* Render nodes                                                            *)
(***************************************************************************)
NodeIdx == 0 .. (MAX_NUM_RENDER_PASSES - 1)
GRAPHICS == "RENDER"
ASYNC_COMPUTE == "ASYNC_COMPUTE"

\* RenderNode::Reset()
EmptyNode ==
    [Dlg |-> -1, Type |-> GRAPHICS, ForceSeparateCmdList |-> FALSE,
     Inputs |-> <<>>, Outputs |-> <<>>, Barriers |-> <<>>,
     Indegree |-> 0, NodeBatchIdx |-> -1, GpuDepSourceIdx |-> -1,
     OutputMask |-> {}, AggNodeIdx |-> -1, HasUnsupportedBarrier |-> FALSE]

\* RenderNode::Reset(name, type, dlg, forceSeparateCmdList); the delegate of
\* the pass registered with handle h is identified by h
NewNode(h, t, fs) ==
    [EmptyNode EXCEPT !.Dlg = h, !.Type = t, !.ForceSeparateCmdList = fs]

(***************************************************************************)
(* Frame set-up and the resource table's operations                        *)
(***************************************************************************)
Running == failed = "none"

\* the client's notes: its last call, the table as it was before that call,
\* how many dependencies and removals it has made, and what the frame
\* before the current one built
Note(op, args) ==
    [client EXCEPT !.lastOp = <<op, args>>, !.before = frameResources,
                   !.beforeLast = lastResIdx,
                   !.prevFrame = IF op = "BeginFrame"
                                 THEN [aggs |-> aggregateNodes, mapping |-> mapping]
                                 ELSE @,
                   !.ndeps = IF op \in {"AddInput", "AddOutput"} THEN @ + 1 ELSE @,
                   !.removes = IF op \in {"RemoveResource", "RemoveResources"}
                               THEN @ + 1 ELSE @]

BeginFrame ==
    /\ Running
    /\ ~inBeginEndBlock /\ ~inPreRegister
    /\ frameNo < MaxFrames
    /\ prevFramesNumResources' = lastResIdx
    /\ currRenderPassIdx' = 0
    /\ frameResources' = [i \in ResIdx |-> [frameResources[i] EXCEPT !.Producers = <<>>]]
    /\ renderNodes' = [i \in NodeIdx |-> EmptyNode]
    /\ aggregateNodes' = <<>>
    /\ inBeginEndBlock' = TRUE
    /\ inPreRegister' = TRUE
    /\ frameNo' = frameNo + 1
    /\ client' = [Note("BeginFrame", <<>>) EXCEPT !.regd = {}, !.ndeps = 0]
    /\ UNCHANGED <<lastResIdx, mapping, taskEdges, failed, runVars, resState, envVars>>

RegisterResource(res, path, initState, wsd) ==
    /\ Running
    /\ inBeginEndBlock /\ inPreRegister
    /\ res = NullRes \/ path > DUMMY_RES_COUNT
    /\ LET prevPos == FindFrameResource(frameResources, lastResIdx, path, 0,
                                        prevFramesNumResources - 1)
       IN  IF prevPos # -1
           THEN /\ IF frameResources[prevPos].Res # res
                   THEN /\ frameResources' = [frameResources EXCEPT
                                                ![prevPos] = NewRes(path, res, initState, wsd)]
                        /\ resState' = [resState EXCEPT ![res] = initState]
                   ELSE UNCHANGED <<frameResources, resState>>
                /\ UNCHANGED <<lastResIdx, failed>>
           ELSE IF lastResIdx < MAX_NUM_RESOURCES
           THEN /\ frameResources' =
                      [frameResources EXCEPT ![lastResIdx] = NewRes(path, res, initState, wsd)]
                /\ resState' = [resState EXCEPT ![res] = initState]
                /\ lastResIdx' = lastResIdx + 1
                /\ UNCHANGED failed
           ELSE /\ failed' = "Number of resources exceeded MAX_NUM_RESOURCES"
                /\ UNCHANGED <<frameResources, lastResIdx, resState>>
    /\ client' = [Note("RegisterResource", <<path, res>>) EXCEPT !.regd = @ \cup {path}]
    /\ UNCHANGED <<prevFramesNumResources, inBeginEndBlock, inPreRegister, nodeVars, frameNo,
                   runVars, envVars>>

RegisterRenderPass(t, fs) ==
    /\ Running
    /\ inBeginEndBlock /\ inPreRegister
    /\ currRenderPassIdx < MAX_NUM_RENDER_PASSES
    /\ renderNodes' = [renderNodes EXCEPT ![currRenderPassIdx] = NewNode(currRenderPassIdx, t, fs)]
    /\ currRenderPassIdx' = currRenderPassIdx + 1
    /\ client' = Note("RegisterRenderPass", <<currRenderPassIdx>>)
    /\ UNCHANGED <<resVars, mapping, aggregateNodes, taskEdges, failed, frameNo,
                   runVars, resState, envVars>>

HasDuplicateIds(fr, n) == \E i \in 0 .. (n - 2) : fr[i].ID = fr[i + 1].ID

MoveToPostRegister ==
    /\ Running
    /\ inBeginEndBlock /\ inPreRegister
    /\ LET sorted == SortResources(frameResources, lastResIdx)
       IN  /\ frameResources' = sorted
           /\ IF HasDuplicateIds(sorted, lastResIdx)
              THEN failed' = "Duplicate entries for resource" /\ UNCHANGED inPreRegister
              ELSE inPreRegister' = FALSE /\ UNCHANGED failed
    /\ client' = Note("MoveToPostRegister", <<>>)
    /\ UNCHANGED <<prevFramesNumResources, lastResIdx, inBeginEndBlock, nodeVars, frameNo,
                   runVars, resState, envVars>>

\* the loop "for (i = pos; i < m_prevFramesNumResources; i++) fr[i] = move(fr[i + 1])"
ShiftLeft(fr, pos, prev) ==
    [i \in ResIdx |-> IF pos <= i /\ i < prev THEN fr[i + 1] ELSE fr[i]]

RemoveResource(path) ==
    /\ Running
    /\ ~inBeginEndBlock
    /\ LET pos == FindFrameResource(frameResources, lastResIdx, path, 0,
                                    prevFramesNumResources - 1)
       IN  IF pos = -1
           THEN UNCHANGED <<frameResources, lastResIdx, failed>>
           ELSE IF pos < prevFramesNumResources /\ prevFramesNumResources >= MAX_NUM_RESOURCES
           THEN /\ failed' = "read past the end of m_frameResources"
                /\ UNCHANGED <<frameResources, lastResIdx>>
           ELSE /\ lastResIdx' = lastResIdx - 1
                /\ frameResources' =
                      ShiftLeft([frameResources EXCEPT ![pos] = EmptyRes], pos,
                                prevFramesNumResources)
                /\ UNCHANGED failed
    /\ client' = Note("RemoveResource", <<path>>)
    /\ UNCHANGED <<prevFramesNumResources, inBeginEndBlock, inPreRegister, nodeVars, frameNo,
                   runVars, resState, envVars>>

\* the loop of RemoveResources over paths: <<table, numRemoved>>
RECURSIVE ResetAll(_, _, _, _)
ResetAll(fr, last, prev, paths) ==
    IF paths = <<>> THEN <<fr, 0>>
    ELSE LET pos == FindFrameResource(fr, last, Head(paths), 0, prev - 1)
             fr1 == IF pos # -1 THEN [fr EXCEPT ![pos] = EmptyRes] ELSE fr
             rest == ResetAll(fr1, last, prev, Tail(paths))
         IN  <<rest[1], rest[2] + (IF pos # -1 THEN 1 ELSE 0)>>

RemoveResources(paths) ==
    /\ Running
    /\ ~inBeginEndBlock
    /\ LET r == ResetAll(frameResources, lastResIdx, prevFramesNumResources, paths)
       IN  /\ frameResources' = SortResources(r[1], prevFramesNumResources)
           /\ lastResIdx' = lastResIdx - r[2]
    /\ client' = Note("RemoveResources", paths)
    /\ UNCHANGED <<prevFramesNumResources, inBeginEndBlock, inPreRegister, nodeVars,
                   failed, frameNo, runVars, resState, envVars>>

(***************************************************************************)
(* Declaring dependencies                                                  *)
(***************************************************************************)
FoldLeft(Op(_, _), acc0, s) ==
    LET F[i \in 0 .. Len(s)] == IF i = 0 THEN acc0 ELSE Op(F[i - 1], s[i])
    IN  F[Len(s)]

\* for (i = lo; i <= hi; i++) acc = Op(acc, i)
FoldRange(Op(_, _), acc0, lo, hi) ==
    LET F[i \in (lo - 1) .. Max(hi, lo - 1)] ==
            IF i = lo - 1 THEN acc0 ELSE Op(F[i - 1], i)
    IN  F[Max(hi, lo - 1)]

Dependency(pathID, expectedState) == [ResID |-> pathID, ExpectedState |-> expectedState]

AddInput(h, pathID, expectedState) ==
    /\ Running
    /\ inBeginEndBlock /\ ~inPreRegister
    /\ h >= 0 /\ h < currRenderPassIdx
    /\ IF expectedState \cap READ_STATES = {}
       THEN failed' = "Invalid read state." /\ UNCHANGED renderNodes
       ELSE /\ renderNodes' = [renderNodes EXCEPT
                   ![h].Inputs = Append(@, Dependency(pathID, expectedState))]
            /\ UNCHANGED failed
    /\ client' = Note("AddInput", <<h, pathID, 0, expectedState>>)
    /\ UNCHANGED <<resVars, currRenderPassIdx, mapping, aggregateNodes, taskEdges, frameNo,
                   runVars, resState, envVars>>

\* an output state on an async-compute node is never checked
UnsupportedNever(type, expectedState) == FALSE

\* the negation of "Type != ASYNC_COMPUTE || !(expectedState & INVALID_COMPUTE_STATES)"
UnsupportedOnCompute(type, expectedState) ==
    type = ASYNC_COMPUTE /\ expectedState \cap INVALID_COMPUTE_STATES # {}

AddOutput(h, pathID, expectedState) ==
    /\ Running
    /\ inBeginEndBlock /\ ~inPreRegister
    /\ h >= 0 /\ h < currRenderPassIdx
    /\ LET idx == FindFrameResourceAll(frameResources, lastResIdx, pathID)
       IN  IF expectedState \cap WRITE_STATES = {}
           THEN failed' = "Invalid write state." /\ UNCHANGED <<renderNodes, frameResources>>
           ELSE IF UnsupportedOnCompute(renderNodes[h].Type, expectedState)
           THEN /\ failed' = "state transition is not supported on an async-compute command list."
                /\ UNCHANGED <<renderNodes, frameResources>>
           ELSE /\ renderNodes' = [renderNodes EXCEPT
                       ![h].Outputs = Append(@, Dependency(pathID, expectedState))]
                /\ IF idx = -1
                   THEN failed' = "Invalid resource path." /\ UNCHANGED frameResources
                   ELSE IF Len(frameResources[idx].Producers) >= MAX_NUM_PRODUCERS
                   THEN /\ failed' = "Number of producers exceeded MAX_NUM_PRODUCERS"
                        /\ UNCHANGED frameResources
                   ELSE /\ frameResources' = [frameResources EXCEPT
                               ![idx].Producers = Append(@, h)]
                        /\ UNCHANGED failed
    /\ client' = Note("AddOutput", <<h, pathID, 1, expectedState>>)
    /\ UNCHANGED <<prevFramesNumResources, lastResIdx, inBeginEndBlock, inPreRegister,
                   currRenderPassIdx, mapping, aggregateNodes, taskEdges, frameNo,
                   runVars, resState, envVars>>

(***************************************************************************)
(* Build: edges and in-degrees (RenderGraph::Build)                        *)
(*                                                                         *)
(* The builder's steps thread a record st through the loops of the code:   *)
(* st.nodes is m_renderNodes, st.err the first failed assertion ("" while  *)
(* none has failed; a step does nothing once one has).  A build without   *)
(* assertions is followed no further than the first assertion of the       *)
(* builder that would have failed.                                         *)
(***************************************************************************)
Ok(st) == st.err = ""
Fail(st, msg) == [st EXCEPT !.err = msg]

\* first output position (from 0) naming resID, or -1
FirstOutputOf(node, resID) ==
    LET hits == {i \in 1 .. Len(node.Outputs) : node.Outputs[i].ResID = resID}
    IN  IF hits = {} THEN -1
        ELSE (CHOOSE i \in hits : \A j \in hits : i <= j) - 1

\* the loop body taking every producer that is not an earlier node for the
\* node itself
EdgeFromEarlierProducer(st, currNode, input, prodHandle) ==
    IF ~Ok(st) THEN st
    ELSE IF currNode <= prodHandle
    THEN [st EXCEPT !.nodes[currNode].Indegree = @ - 1]
    ELSE [st EXCEPT !.adj[prodHandle] = Append(@, currNode)]

\* body of "for (int prod = 0; prod < numProducers; prod++)"
EdgeFromProducer(st, currNode, input, prodHandle) ==
    IF ~Ok(st) THEN st
    ELSE IF currNode = prodHandle
    THEN LET node == st.nodes[currNode]
             i == FirstOutputOf(node, input.ResID)
         IN  IF Len(node.Outputs) = 0 THEN Fail(st, "invalid graph.")
             ELSE [st EXCEPT !.nodes[currNode].Indegree = @ - 1,
                             !.nodes[currNode].OutputMask =
                                 IF i = -1 THEN @ ELSE @ \cup {i}]
    ELSE [st EXCEPT !.adj[prodHandle] = Append(@, currNode)]

\* the loop body leaving the in-degree alone for an input without producers
EdgesOfInputKeepingIndegree(st, currNode, input, fr, last) ==
    IF ~Ok(st) THEN st
    ELSE LET idx == FindFrameResourceAll(fr, last, input.ResID)
         IN  IF idx = -1 THEN Fail(st, "Resource ID was not found.")
             ELSE LET prods == fr[idx].Producers
                      st1 == [st EXCEPT !.nodes[currNode].Indegree =
                                            @ + Max(Len(prods) - 1, 0)]
                  IN  FoldLeft(LAMBDA a, p : EdgeFromProducer(a, currNode, input, p),
                               st1, prods)

\* body of "for (Dependency& input : node.Inputs)"
EdgesOfInput(st, currNode, input, fr, last) ==
    IF ~Ok(st) THEN st
    ELSE LET idx == FindFrameResourceAll(fr, last, input.ResID)
         IN  IF idx = -1 THEN Fail(st, "Resource ID was not found.")
             ELSE LET prods == fr[idx].Producers
                      numProducers == Len(prods)
                      ind == st.nodes[currNode].Indegree
                      st1 == IF numProducers = 0
                             THEN IF ind - 1 < 0
                                  THEN Fail(st, "Invalid indegree for node.")
                                  ELSE [st EXCEPT !.nodes[currNode].Indegree = ind - 1]
                             ELSE [st EXCEPT !.nodes[currNode].Indegree =
                                                 ind + numProducers - 1]
                  IN  FoldLeft(LAMBDA a, p : EdgeFromProducer(a, currNode, input, p),
                               st1, prods)

\* lines 352-411: Indegree = Inputs.size(), then the edges of every node
AddGraphEdges(nodes, numNodes, fr, last) ==
    LET init == [nodes |-> [i \in NodeIdx |->
                               IF i < numNodes
                               THEN [nodes[i] EXCEPT !.Indegree = Len(nodes[i].Inputs)]
                               ELSE nodes[i]],
                 adj |-> [i \in NodeIdx |-> <<>>],
                 err |-> ""]
    IN  FoldRange(LAMBDA a, n :
                    FoldLeft(LAMBDA b, inp : EdgesOfInput(b, n, inp, fr, last),
                             a, a.nodes[n].Inputs),
                  init, 0, numNodes - 1)

(***************************************************************************)
(* RenderGraph::Sort                                                       *)
(***************************************************************************)
\* "Move all the nodes with zero indegree to sorted"
ZeroIndegreeFrontier(nodes, numNodes) ==
    FoldRange(LAMBDA a, n :
                IF a.nodes[n].Indegree = 0
                THEN [a EXCEPT !.sorted = Append(@, n), !.nodes[n].NodeBatchIdx = 0]
                ELSE a,
              [nodes |-> nodes, sorted |-> <<>>, err |-> ""], 0, numNodes - 1)

\* one iteration of the "Topological sort" loop; sorted[currNode] of the code
\* is st.sorted[currNode + 1]
KahnStep(st, currNode, adj) ==
    IF ~Ok(st) THEN st
    ELSE IF currNode + 1 > Len(st.sorted) THEN Fail(st, "invalid handle")
    ELSE FoldLeft(LAMBDA a, adjacent :
                    LET d == a.nodes[adjacent].Indegree - 1
                    IN  [a EXCEPT !.nodes[adjacent].Indegree = d,
                                  !.sorted = IF d = 0 THEN Append(@, adjacent) ELSE @],
                  st, adj[st.sorted[currNode + 1]])

\* the batch index of a node taken from the first producer that reaches it
FirstPath(nodes, sorted, adj) ==
    FoldLeft(LAMBDA ns, currHandle :
               FoldLeft(LAMBDA m, adjacent :
                          [m EXCEPT ![adjacent].NodeBatchIdx =
                               IF @ = -1 THEN m[currHandle].NodeBatchIdx + 1 ELSE @],
                        ns, adj[currHandle]),
             nodes, sorted)

\* "Length of the longest path for every node in DAG"
LongestPath(nodes, sorted, adj) ==
    FoldLeft(LAMBDA ns, currHandle :
               FoldLeft(LAMBDA m, adjacent :
                          [m EXCEPT ![adjacent].NodeBatchIdx =
                               Max(m[currHandle].NodeBatchIdx + 1, @)],
                        ns, adj[currHandle]),
             nodes, sorted)

\* asserts at lines 580 and 595
CheckFrontier(f) ==
    IF Len(f.sorted) = 0 THEN Fail(f, "Graph is not a DAG- no node with 0 dependencies.")
    ELSE f

CheckSortedCount(k, numNodes) ==
    IF Ok(k) /\ Len(k.sorted) # numNodes THEN Fail(k, "Graph is not a DAG") ELSE k

ShuffleInverseMapping(batched, topo, perm, numNodes, oldMapping) ==
    LET sorted == [i \in 1 .. numNodes |-> topo[perm[i]]]
    IN  [nodes |-> [i \in NodeIdx |->
                      IF i < numNodes THEN batched[sorted[i + 1]] ELSE batched[i]],
         mapping |-> [h \in NodeIdx |-> IF h < numNodes THEN sorted[h + 1] ELSE oldMapping[h]],
         sorted |-> sorted,
         err |-> ""]

\* lines 610-635: order by batch index, record the mapping, shuffle the nodes
Shuffle(batched, topo, perm, numNodes, oldMapping) ==
    LET sorted == [i \in 1 .. numNodes |-> topo[perm[i]]]
    IN  [nodes |-> [i \in NodeIdx |->
                      IF i < numNodes THEN batched[sorted[i + 1]] ELSE batched[i]],
         mapping |-> [h \in NodeIdx |->
                      IF \E i \in 1 .. numNodes : sorted[i] = h
                      THEN (CHOOSE i \in 1 .. numNodes : sorted[i] = h) - 1
                      ELSE oldMapping[h]],
         sorted |-> sorted,
         err |-> ""]

SortByBatchDescending(batched, topo, numNodes, oldMapping) ==
    Shuffle(batched, topo,
            SortIdx([i \in 1 .. numNodes |-> 0 - batched[topo[i]].NodeBatchIdx]),
            numNodes, oldMapping)

SortByBatch(batched, topo, numNodes, oldMapping) ==
    Shuffle(batched, topo,
            SortIdx([i \in 1 .. numNodes |-> batched[topo[i]].NodeBatchIdx]),
            numNodes, oldMapping)

FinishSort(k, nodes, adj, numNodes, oldMapping) ==
    IF ~Ok(k)
    THEN [nodes |-> nodes, mapping |-> oldMapping, sorted |-> <<>>, err |-> k.err]
    ELSE SortByBatch(LongestPath(k.nodes, k.sorted, adj), k.sorted, numNodes, oldMapping)

\* Sort: .nodes in execution order, .mapping, .sorted (handles in that order)
SortNodes(nodes, adj, numNodes, oldMapping) ==
    FinishSort(
        CheckSortedCount(
            FoldRange(LAMBDA a, n : KahnStep(a, n, adj),
                      CheckFrontier(ZeroIndegreeFrontier(nodes, numNodes)),
                      0, numNodes - 1),
            numNodes),
        nodes, adj, numNodes, oldMapping)

(***************************************************************************)
(* RenderGraph::InsertResourceBarriers                                     *)
(*                                                                         *)
(* st.lastDir and st.lastCompute are lastDirQueueHandle and                *)
(* lastComputeQueueHandle; st.largest is largestProducerSortedHandle and   *)
(* st.i the output counter of the node being processed.                    *)
(***************************************************************************)
TransitionBarrier(res, before, after) ==
    [Res |-> res, StateBefore |-> before, StateAfter |-> after]

\* the id the renderer reports for the current back buffer
BackBufferID == DUMMY_RES_COUNT + 1

\* a transition whenever the two states differ
StatesDiffer(state, expectedState) == state # expectedState

\* !(state & expectedState)
NoCommonBit(state, expectedState) == state \cap expectedState = {}

\* body of "for (Dependency& currInputRes : node.Inputs)"
BarrierForInput(st, currNode, inp, mp) ==
    IF ~Ok(st) \/ inp.ResID < DUMMY_RES_COUNT THEN st
    ELSE
    LET idx == FindFrameResourceAll(st.fr, st.last, inp.ResID)
    IN  IF idx = -1 THEN Fail(st, "Resource was not found.")
        ELSE
        LET node == st.nodes[currNode]
            isAsyncCompute == node.Type = ASYNC_COMPUTE
            inputResState == st.fr[idx].State
            st1 == IF NoCommonBit(inputResState, inp.ExpectedState)
                   THEN [st EXCEPT
                           !.nodes[currNode].HasUnsupportedBarrier =
                               @ \/ (isAsyncCompute
                                     /\ inputResState \cap INVALID_COMPUTE_STATES # {}),
                           !.nodes[currNode].Barriers =
                               Append(@, TransitionBarrier(st.fr[idx].Res, inputResState,
                                                           inp.ExpectedState)),
                           !.fr[idx].State = inp.ExpectedState]
                   ELSE st
        IN  FoldLeft(LAMBDA a, unsortedHandle :
                       LET sortedHandle == mp[unsortedHandle]
                           producerOnDifferentQueue ==
                               \/ isAsyncCompute
                                  /\ a.nodes[sortedHandle].Type # ASYNC_COMPUTE
                               \/ ~isAsyncCompute
                                  /\ a.nodes[sortedHandle].Type = ASYNC_COMPUTE
                       IN  IF ~Ok(a) \/ ~producerOnDifferentQueue THEN a
                           ELSE IF ~(a.nodes[sortedHandle].NodeBatchIdx < node.NodeBatchIdx)
                           THEN Fail(a, "Invalid graph")
                           ELSE [a EXCEPT !.largest = Max(@, sortedHandle)],
                     st1, st.fr[idx].Producers)

\* "Case b": the cursor read is the one of the other queue
SyncWithProducer(st, currNode) ==
    LET isAsyncCompute == st.nodes[currNode].Type = ASYNC_COMPUTE
        lastSynced == IF isAsyncCompute THEN st.lastDir ELSE st.lastCompute
    IN  IF Ok(st) /\ st.largest # -1 /\ lastSynced < st.largest
        THEN [st EXCEPT !.lastDir = IF isAsyncCompute THEN st.largest ELSE @,
                        !.lastCompute = IF isAsyncCompute THEN @ ELSE st.largest,
                        !.nodes[currNode].GpuDepSourceIdx = st.largest]
        ELSE st

\* body of "for (Dependency& currOutputRes : node.Outputs)"
BarrierForOutput(st, currNode, out) ==
    IF ~Ok(st) \/ out.ResID < DUMMY_RES_COUNT THEN st
    ELSE
    LET node == st.nodes[currNode]
        isAsyncCompute == node.Type = ASYNC_COMPUTE
        skipBarrier == st.i \in node.OutputMask
        idx == FindFrameResourceAll(st.fr, st.last, out.ResID)
    IN  IF idx = -1 THEN Fail([st EXCEPT !.i = @ + 1], "Resource was not found.")
        ELSE
        LET outputResState == st.fr[idx].State
            st1 == IF ~skipBarrier /\ NoCommonBit(outputResState, out.ExpectedState)
                   THEN [st EXCEPT
                           !.nodes[currNode].HasUnsupportedBarrier =
                               @ \/ (isAsyncCompute
                                     /\ outputResState \cap INVALID_COMPUTE_STATES # {}),
                           !.nodes[currNode].Barriers =
                               Append(@, TransitionBarrier(st.fr[idx].Res, outputResState,
                                                           out.ExpectedState))]
                   ELSE st
        IN  [st1 EXCEPT !.i = @ + 1, !.fr[idx].State = out.ExpectedState]

\* body of "for (int currNode = 0; currNode < numNodes; currNode++)"
OutputBarriers(st, currNode) ==
    FoldLeft(LAMBDA a, out : BarrierForOutput(a, currNode, out),
             st, st.nodes[currNode].Outputs)

BarriersOfNode(st, currNode, mp) ==
    OutputBarriers(
        SyncWithProducer(
            FoldLeft(LAMBDA a, inp : BarrierForInput(a, currNode, inp, mp),
                     [st EXCEPT !.largest = -1, !.i = 0], st.nodes[currNode].Inputs),
            currNode),
        currNode)

\* the tracked state of the back buffer left as the passes made it
BackBufferKept(st) == st

\* lines 787-791
BackBufferToPresent(st) ==
    LET idx == FindFrameResourceAll(st.fr, st.last, BackBufferID)
    IN  IF Ok(st) /\ idx # -1 THEN [st EXCEPT !.fr[idx].State = PRESENT] ELSE st

InsertResourceBarriers(nodes, numNodes, fr, last, mp) ==
    LET init == [nodes |-> nodes, fr |-> fr, last |-> last, err |-> "",
                 lastDir |-> 0, lastCompute |-> 0, largest |-> -1, i |-> 0]
    IN  BackBufferToPresent(
            FoldRange(LAMBDA a, n : IF Ok(a) THEN BarriersOfNode(a, n, mp) ELSE a,
                      init, 0, numNodes - 1))

(***************************************************************************)
(* RenderGraph::JoinRenderNodes                                            *)
(*                                                                         *)
(* Aggregate i of the code is st.aggs[i + 1]; the indices stored in the    *)
(* fields (AggNodeIdx, GpuDepIdx) are the code's, from 0.                  *)
(***************************************************************************)
UNSET_FENCE == -1

\* AggregateRenderNode(bool isAsyncCompute)
NewAggregate(isAsyncCompute) ==
    [IsAsyncCompute |-> isAsyncCompute, Barriers |-> <<>>, Dlgs |-> <<>>,
     BatchIdx |-> -1, ForceSeparate |-> FALSE, GpuDepIdx |-> -1,
     HasUnsupportedBarrier |-> FALSE, IsLast |-> FALSE,
     MergeStart |-> FALSE, MergeEnd |-> FALSE, MergedCmdListIdx |-> -1,
     CompletionFence |-> UNSET_FENCE]

\* AggregateRenderNode::Append on the last aggregate, then "AggNodeIdx = size() - 1"
AppendToLast(st, n, forceSeparate) ==
    IF ~Ok(st) THEN st
    ELSE
    LET node == st.nodes[n]
        agg == st.aggs[Len(st.aggs)]
        gpuDep == node.GpuDepSourceIdx
        mappedGpuDepIdx == IF gpuDep = -1 THEN -1 ELSE st.nodes[gpuDep].AggNodeIdx
    IN  IF gpuDep # -1 /\ mappedGpuDepIdx = -1
        THEN Fail(st, "Aggregate node of GPU dependency should come before the dependent node.")
        ELSE IF agg.IsAsyncCompute # (node.Type = ASYNC_COMPUTE)
        THEN Fail(st, "All the nodes in an AggregateRenderNode must have the same type.")
        ELSE IF agg.Dlgs # <<>> /\ node.NodeBatchIdx # agg.BatchIdx
        THEN Fail(st, "All the nodes in an AggregateRenderNode must have the same batch index.")
        ELSE IF forceSeparate /\ agg.Dlgs # <<>>
        THEN Fail(st, "Aggregate nodes with forceSeparate flag can't have more than one task.")
        ELSE IF node.HasUnsupportedBarrier /\ node.Type # ASYNC_COMPUTE
        THEN Fail(st, "Invalid condition.")
        ELSE [st EXCEPT
                !.aggs[Len(st.aggs)] =
                    [agg EXCEPT !.Barriers = @ \o node.Barriers,
                                !.Dlgs = Append(@, node.Dlg),
                                !.BatchIdx = node.NodeBatchIdx,
                                !.ForceSeparate = forceSeparate,
                                !.GpuDepIdx = Max(@, mappedGpuDepIdx),
                                !.HasUnsupportedBarrier = @ \/ node.HasUnsupportedBarrier],
                !.nodes[n].AggNodeIdx = Len(st.aggs) - 1]

\* lines 832-834: an unsupported barrier supersedes the aggregate's GPU fence
SupersedeFence(filled, nodes, async) ==
    IF /\ Ok(filled)
       /\ \E k \in 1 .. Len(async) : nodes[async[k]].GpuDepSourceIdx # -1
       /\ \E k \in 1 .. Len(async) : nodes[async[k]].HasUnsupportedBarrier
    THEN [filled EXCEPT !.aggs[Len(filled.aggs)].GpuDepIdx = -1]
    ELSE filled

\* one bucket becomes one aggregate
FlushBucket(st, bucket, isAsyncCompute) ==
    IF bucket = <<>> \/ ~Ok(st) THEN st
    ELSE FoldLeft(LAMBDA a, n : AppendToLast(a, n, FALSE),
                  [st EXCEPT !.aggs = Append(@, NewAggregate(isAsyncCompute))], bucket)

\* the two buckets flushed in the other order
InsertAggRndrNodeGraphicsFirst(st) ==
    IF ~Ok(st) THEN st
    ELSE IF st.nonAsync = <<>> /\ st.async = <<>> THEN Fail(st, "bug")
    ELSE SupersedeFence(FlushBucket(FlushBucket(st, st.nonAsync, FALSE), st.async, TRUE),
                        st.nodes, st.async)

\* the lambda insertAggRndrNode
InsertAggRndrNode(st) ==
    IF ~Ok(st) THEN st
    ELSE IF st.nonAsync = <<>> /\ st.async = <<>> THEN Fail(st, "bug")
    ELSE FlushBucket(SupersedeFence(FlushBucket(st, st.async, TRUE), st.nodes, st.async),
                     st.nonAsync, FALSE)

\* lines 857-871
OnBatchChange(st, node) ==
    IF node.NodeBatchIdx = st.currBatchIdx THEN st
    ELSE IF st.nonAsync # <<>> \/ st.async # <<>>
    THEN [InsertAggRndrNode(st) EXCEPT !.nonAsync = <<>>, !.async = <<>>,
                                       !.currBatchIdx = node.NodeBatchIdx]
    ELSE [st EXCEPT !.currBatchIdx = node.NodeBatchIdx]

\* lines 873-891
PlaceNode(st, currNode, node) ==
    IF ~Ok(st) THEN st
    ELSE IF node.ForceSeparateCmdList
    THEN AppendToLast([st EXCEPT !.aggs =
                           Append(@, NewAggregate(node.Type = ASYNC_COMPUTE))],
                      currNode, TRUE)
    ELSE IF node.Type = ASYNC_COMPUTE
    THEN [st EXCEPT !.async = Append(@, currNode)]
    ELSE [st EXCEPT !.nonAsync = Append(@, currNode)]

\* body of "for (int currNode = 0; currNode < numNodes; currNode++)"
JoinStep(st, currNode) ==
    IF ~Ok(st) THEN st
    ELSE PlaceNode(OnBatchChange(st, st.nodes[currNode]), currNode, st.nodes[currNode])

MarkLast(st) ==
    IF ~Ok(st) THEN st ELSE [st EXCEPT !.aggs[Len(st.aggs)].IsLast = TRUE]

JoinRenderNodes(nodes, numNodes) ==
    MarkLast(InsertAggRndrNode(
        FoldRange(LAMBDA a, n : JoinStep(a, n),
                  [nodes |-> nodes, aggs |-> <<>>, nonAsync |-> <<>>, async |-> <<>>,
                   currBatchIdx |-> 0, err |-> ""],
                  0, numNodes - 1)))

(***************************************************************************)
(* RenderGraph::MergeSmallNodes                                            *)
(***************************************************************************)
\* "if (currCount)" blocks at lines 918-934 and 941-957; prev is a position
\* of st.aggs (from 1)
CloseRunOfAnyLength(st, prev) ==
    IF st.currCount = 0 THEN st
    ELSE [st EXCEPT !.aggs[prev].MergeEnd = TRUE, !.cmdListIdx = @ + 1]

CloseRun(st, prev) ==
    IF st.currCount = 0 THEN st
    ELSE IF st.currCount = 1
    THEN IF ~(st.aggs[prev].MergeStart /\ st.aggs[prev].MergedCmdListIdx # -1)
         THEN Fail(st, "bug")
         ELSE [st EXCEPT !.aggs[prev].MergeStart = FALSE,
                         !.aggs[prev].MergedCmdListIdx = @ - 1]
    ELSE [st EXCEPT !.aggs[prev].MergeEnd = TRUE, !.cmdListIdx = @ + 1]

\* body of the loop over nodeIdx (position k = nodeIdx + 1)
MergeStep(st, k) ==
    IF ~Ok(st) THEN st
    ELSE
    LET node == st.aggs[k]
    IN  IF ~node.IsAsyncCompute /\ ~node.ForceSeparate /\ Len(node.Dlgs) = 1
        THEN [st EXCEPT !.aggs[k].MergeStart = (st.currOffset = -1),
                        !.aggs[k].MergedCmdListIdx = st.cmdListIdx,
                        !.currOffset = IF @ = -1 THEN k - 1 ELSE @,
                        !.currCount = @ + 1]
        ELSE [CloseRun(st, k - 1) EXCEPT !.currCount = 0, !.currOffset = -1]

\* the debug-build walk at lines 978-1006
MergeValidation(aggs) ==
    FoldLeft(LAMBDA a, node :
               IF ~Ok(a) THEN a
               ELSE IF (a.inMerged /\ node.MergeStart) \/ (~a.inMerged /\ node.MergeEnd)
               THEN Fail(a, "RenderGraph: merge validation failed.")
               ELSE
               LET inM == a.inMerged \/ node.MergeStart
                   cnt == IF inM THEN a.currCount + 1 ELSE a.currCount
               IN  IF node.MergeEnd
                   THEN IF node.MergeStart \/ ~inM \/ ~(cnt > 1)
                        THEN Fail(a, "RenderGraph: merge validation failed.")
                        ELSE [a EXCEPT !.inMerged = FALSE, !.currCount = 0]
                   ELSE [a EXCEPT !.inMerged = inM, !.currCount = cnt],
             [inMerged |-> FALSE, currCount |-> 0, err |-> ""], aggs)

CloseLastRun(st) == IF Ok(st) THEN CloseRun(st, Len(st.aggs)) ELSE st

Validate(st) == IF ~Ok(st) THEN st ELSE [st EXCEPT !.err = MergeValidation(st.aggs).err]

\* .aggs with the merge fields set, .cmdListIdx merged command lists
MergeSmallNodes(aggs) ==
    Validate(CloseLastRun(
        FoldRange(LAMBDA a, k : MergeStep(a, k),
                  [aggs |-> aggs, currOffset |-> -1, cmdListIdx |-> 0, currCount |-> 0,
                   err |-> ""],
                  1, Len(aggs))))

(***************************************************************************)
(* RenderGraph::BuildTaskGraph: the edges (lines 541-558), as pairs of     *)
(* aggregate indices from 0                                                *)
(***************************************************************************)
\* the indices j the inner loop reaches before its break
ScannedFrom(aggs, i) ==
    {j \in (i + 1) .. (Len(aggs) - 1) :
        \A m \in (i + 1) .. j : ~(aggs[m + 1].BatchIdx > aggs[i + 1].BatchIdx + 1)}

TaskGraphEdgesToFirstOnly(aggs) ==
    {e \in (0 .. (Len(aggs) - 2)) \X (0 .. (Len(aggs) - 1)) :
        /\ e[2] \in ScannedFrom(aggs, e[1])
        /\ aggs[e[2] + 1].BatchIdx = aggs[e[1] + 1].BatchIdx + 1
        /\ \A m \in (e[1] + 1) .. (e[2] - 1) :
              aggs[m + 1].BatchIdx # aggs[e[2] + 1].BatchIdx}

TaskGraphEdges(aggs) ==
    {e \in (0 .. (Len(aggs) - 2)) \X (0 .. (Len(aggs) - 1)) :
        /\ e[2] \in ScannedFrom(aggs, e[1])
        /\ \/ aggs[e[2] + 1].BatchIdx = aggs[e[1] + 1].BatchIdx + 1
           \/ /\ aggs[e[2] + 1].BatchIdx = aggs[e[1] + 1].BatchIdx
              /\ aggs[e[2] + 1].ForceSeparate}

(***************************************************************************)
(* RenderGraph::Build                                                      *)
(***************************************************************************)
\* The builder's passes in the order Build calls them.  Each takes the record
\* p of what the passes before it produced and does nothing once an
\* assertion has failed (p.err).
WithSort(p, r) == [p EXCEPT !.nodes = r.nodes, !.mapping = r.mapping, !.err = r.err]
SortPass(p, numNodes) ==
    IF ~Ok(p) THEN p ELSE WithSort(p, SortNodes(p.nodes, p.adj, numNodes, p.mapping))

WithBarriers(p, r) == [p EXCEPT !.nodes = r.nodes, !.fr = r.fr, !.err = r.err]
BarrierPass(p, numNodes, last) ==
    IF ~Ok(p) THEN p
    ELSE WithBarriers(p, InsertResourceBarriers(p.nodes, numNodes, p.fr, last, p.mapping))

WithJoin(p, r) == [p EXCEPT !.nodes = r.nodes, !.aggs = r.aggs, !.err = r.err]
JoinPass(p, numNodes) ==
    IF ~Ok(p) THEN p ELSE WithJoin(p, JoinRenderNodes(p.nodes, numNodes))

WithMerge(p, r) ==
    [p EXCEPT !.aggs = r.aggs, !.cmdListIdx = r.cmdListIdx, !.err = r.err]
MergePass(p) == IF ~Ok(p) THEN p ELSE WithMerge(p, MergeSmallNodes(p.aggs))

TaskGraphPass(p) == IF ~Ok(p) THEN p ELSE [p EXCEPT !.edges = TaskGraphEdges(p.aggs)]

WithEdges(e, fr, oldMapping) ==
    [nodes |-> e.nodes, adj |-> e.adj, err |-> e.err, fr |-> fr, mapping |-> oldMapping,
     aggs |-> <<>>, cmdListIdx |-> 0, edges |-> {}]

BuildResult(nodes, numNodes, fr, last, oldMapping) ==
    TaskGraphPass(MergePass(JoinPass(BarrierPass(SortPass(
        WithEdges(AddGraphEdges(nodes, numNodes, fr, last), fr, oldMapping),
        numNodes), numNodes, last), numNodes)))

\* what Build leaves behind
BuildEffect(b) ==
    IF ~Ok(b)
    THEN /\ failed' = b.err
         /\ UNCHANGED <<frameResources, renderNodes, mapping, aggregateNodes, taskEdges>>
    ELSE /\ frameResources' = b.fr
         /\ renderNodes' = b.nodes
         /\ mapping' = b.mapping
         /\ aggregateNodes' = b.aggs
         /\ taskEdges' = b.edges
         /\ UNCHANGED failed

Build ==
    /\ Running
    /\ inBeginEndBlock /\ ~inPreRegister
    /\ inBeginEndBlock' = FALSE
    /\ IF currRenderPassIdx = 0
       THEN /\ failed' = "no render nodes"
            /\ UNCHANGED <<frameResources, renderNodes, mapping, aggregateNodes, taskEdges>>
       ELSE BuildEffect(BuildResult(renderNodes, currRenderPassIdx, frameResources,
                                    lastResIdx, mapping))
    /\ client' = Note("Build", <<>>)
    /\ UNCHANGED <<prevFramesNumResources, lastResIdx, inPreRegister, currRenderPassIdx,
                   frameNo, runVars, resState, envVars>>

(***************************************************************************)
(* The state after construction and the first Reset()                      *)
(***************************************************************************)
Main == 0
Workers == 1 .. NumWorkers
\* the thread that calls Shutdown
Caller == NumWorkers + 1
Threads == {Main, Caller} \cup Workers
NullCmd == -1
NoTask == -1
\* Task("NoOp", TASK_PRIORITY::NORMAL, []() {})
NoOp == -2
\* a task given to Enqueue(Task&&) by a client of the pool
PlainTask == -3
\* task k of a task set that a client of the pool filled itself
SetTask(k) == -4 - k
SetTasks == {SetTask(k) : k \in 0 .. (MaxTasks - 1)}
\* tasks that are not the render graph's: a callback that touches nothing of
\* the render graph
IsPlain(task) == task \in {NoOp, PlainTask} \cup SetTasks

\* task.GetSignalHandle(): the index of the task in its finalized task set,
\* -1 for a task enqueued on its own
GetSignalHandle(task) ==
    IF task >= 0 THEN task ELSE IF task \in SetTasks THEN -4 - task ELSE -1

\* task.GetPriority()
BACKGROUND == "BACKGROUND"
NORMAL == "NORMAL"
GetPriority(task) == IF GetSignalHandle(task) \in background THEN BACKGROUND ELSE NORMAL

InitProgram ==
    /\ frameResources = [i \in ResIdx |-> EmptyRes]
    /\ prevFramesNumResources = 0
    /\ lastResIdx = 0
    /\ inBeginEndBlock = FALSE
    /\ inPreRegister = FALSE
    /\ renderNodes = [i \in NodeIdx |-> EmptyNode]
    /\ currRenderPassIdx = 0
    /\ mapping = [i \in NodeIdx |-> INVALID_NODE_HANDLE]
    /\ aggregateNodes = <<>>
    /\ taskEdges = {}
    /\ failed = "none"
    /\ frameNo = 0
    /\ taskQueue = <<>>
    /\ numTasksInQueue = 0
    /\ numTasksFinished = 0
    /\ numTasksToFinishTarget = 0
    /\ signals = [i \in NodeIdx |-> 0]
    /\ threads = [t \in Threads |->
                    [pc |-> IF t = Main THEN "client"
                            ELSE IF t = Caller THEN "away" ELSE "top",
                     task |-> NoTask, loaded |-> 0]]
    /\ shutdown = FALSE
    /\ mergedCmdLists = [i \in NodeIdx |-> NullCmd]
    /\ submissionWaitObj = FALSE
    /\ resState = [h \in Handles |-> COMMON]
    /\ exec = [done |-> {}, submissions |-> <<>>, lookups |-> {}, observed |-> {},
               recorded |-> {}, waits |-> {}, notified |-> <<>>, registered |-> FALSE,
               flush |-> "none",
               pumped |-> FALSE]
    /\ client = [lastOp |-> <<"Init", <<>>>>, before |-> [i \in ResIdx |-> EmptyRes],
                 beforeLast |-> 0, regd |-> {}, ndeps |-> 0, removes |-> 0,
                 issued |-> 0, pushed |-> {}, returned |-> {}, seen |-> {},
                 prevFrame |-> [aggs |-> <<>>,
                                mapping |-> [i \in NodeIdx |-> INVALID_NODE_HANDLE]]]

InitEnv(scenarios, builds) ==
    scenario \in scenarios /\ NDEBUG \in builds /\ background = {}

Init == InitProgram /\ InitEnv({"table"}, {FALSE})

(***************************************************************************)
(* SpecRes: a client that drives the resource table over MaxFrames frames. *)
(* Each frame it registers resources (an id at most once per frame),       *)
(* declares at most MaxResPasses passes reading or writing them, builds,   *)
(* and may remove resources between frames.                                *)
(***************************************************************************)
ResPaths == {BackBufferID, BackBufferID + 1, BackBufferID + 2}
ResHandles == {"a", "b"}

\* ids in the live range [0, last) of table fr
LiveIds(fr, last) == {fr[i].ID : i \in 0 .. (last - 1)}

ResRegisterResource ==
    \E path \in ResPaths, res \in ResHandles :
        /\ path \notin client.regd
        /\ frameNo = 1 => res = "a"
        /\ RegisterResource(res, path, RENDER_TARGET, FALSE)

ResRegisterRenderPass ==
    /\ currRenderPassIdx < MaxResPasses
    /\ RegisterRenderPass(GRAPHICS, FALSE)

ResMoveToPostRegister == MoveToPostRegister

ResAddInput ==
    \E h \in 0 .. (currRenderPassIdx - 1), path \in ResPaths :
        /\ path \in LiveIds(frameResources, lastResIdx)
        /\ renderNodes[h].Inputs = <<>> /\ renderNodes[h].Outputs = <<>>
        /\ AddInput(h, path, NON_PIXEL_SHADER_RESOURCE)

ResAddOutput ==
    \E h \in 0 .. (currRenderPassIdx - 1), path \in ResPaths :
        /\ path \in LiveIds(frameResources, lastResIdx)
        /\ renderNodes[h].Inputs = <<>> /\ renderNodes[h].Outputs = <<>>
        /\ AddOutput(h, path, UNORDERED_ACCESS)

ResBuild == currRenderPassIdx > 0 /\ Build

ResRemoveResource ==
    \E path \in ResPaths :
        /\ frameNo > 0 /\ client.removes < MaxRemoves
        /\ RemoveResource(path)

ResRemoveResources ==
    \E p1 \in ResPaths, p2 \in ResPaths :
        /\ p1 # p2 /\ frameNo > 0 /\ client.removes < MaxRemoves
        /\ RemoveResources(<<p1, p2>>)

NextRes ==
    \/ BeginFrame
    \/ ResRegisterResource
    \/ ResRegisterRenderPass
    \/ ResMoveToPostRegister
    \/ ResAddInput
    \/ ResAddOutput
    \/ ResBuild
    \/ ResRemoveResource
    \/ ResRemoveResources

SpecRes == Init /\ [][NextRes]_vars

(***************************************************************************)
(* Clients that declare a frame's graph.  A scripted client makes the      *)
(* calls of its scenario in order; the free client registers up to         *)
(* MaxGraphPasses passes of any type and declares up to MaxGraphDeps       *)
(* dependencies between them, in increasing (pass, resource, kind) order.  *)
(* Both register resources, then passes, then declare, then build.         *)
(***************************************************************************)
Res(path, res, init) == [path |-> path, res |-> res, init |-> init]
In(h, path, state) == <<0, h, path, state>>
Out(h, path, state) == <<1, h, path, state>>
G == <<GRAPHICS, FALSE>>
GSeparate == <<GRAPHICS, TRUE>>
AC == <<ASYNC_COMPUTE, FALSE>>

Scenarios ==
    [\* linear chain of three graphics passes
     S1 |-> [passes |-> <<G, G, G>>,
             res |-> <<Res(4, "r4", COMMON), Res(5, "r5", COMMON)>>,
             deps |-> <<Out(0, 4, RENDER_TARGET),
                        In(1, 4, PIXEL_SHADER_RESOURCE), Out(1, 5, RENDER_TARGET),
                        In(2, 5, PIXEL_SHADER_RESOURCE)>>],
     \* A, B, C (handles 0, 1, 2) on the graphics queue, X, Y, Z (3, 4, 5) on
     \* the compute queue, and A -> X, B -> Y, C -> Z across the queues
     S2 |-> [passes |-> <<G, G, G, AC, AC, AC>>,
             res |-> <<Res(4, "r4", COMMON), Res(5, "r5", COMMON), Res(6, "r6", COMMON),
                       Res(7, "r7", COMMON), Res(8, "r8", COMMON)>>,
             deps |-> <<Out(0, 4, UNORDERED_ACCESS),
                        In(1, 4, NON_PIXEL_SHADER_RESOURCE), Out(1, 5, UNORDERED_ACCESS),
                        In(2, 5, NON_PIXEL_SHADER_RESOURCE), Out(2, 6, UNORDERED_ACCESS),
                        In(3, 4, NON_PIXEL_SHADER_RESOURCE), Out(3, 7, UNORDERED_ACCESS),
                        In(4, 5, NON_PIXEL_SHADER_RESOURCE),
                        In(4, 7, NON_PIXEL_SHADER_RESOURCE), Out(4, 8, UNORDERED_ACCESS),
                        In(5, 6, NON_PIXEL_SHADER_RESOURCE),
                        In(5, 8, NON_PIXEL_SHADER_RESOURCE)>>],
     \* an independent graphics and compute pass, one batch of two aggregates
     Pair |-> [passes |-> <<G, AC>>, res |-> <<>>, deps |-> <<>>],
     \* two independent graphics passes, the second with its own command list
     S6 |-> [passes |-> <<G, GSeparate>>, res |-> <<>>, deps |-> <<>>],
     \* a chain of two graphics passes, then a graphics and a compute pass in
     \* one batch, then a compute pass that reads what the graphics pass wrote
     Tail |-> [passes |-> <<G, G, G, AC, AC>>,
               res |-> <<Res(0, NullRes, COMMON), Res(4, "r4", COMMON),
                         Res(5, "r5", COMMON), Res(6, "r6", UNORDERED_ACCESS)>>,
               deps |-> <<Out(0, 4, RENDER_TARGET),
                          In(1, 4, PIXEL_SHADER_RESOURCE), Out(1, 5, UNORDERED_ACCESS),
                          Out(1, 0, UNORDERED_ACCESS),
                          In(2, 0, NON_PIXEL_SHADER_RESOURCE), Out(2, 6, UNORDERED_ACCESS),
                          In(3, 5, NON_PIXEL_SHADER_RESOURCE),
                          In(4, 6, NON_PIXEL_SHADER_RESOURCE)>>],
     \* a chain of two graphics passes, a compute pass, a last graphics pass
     LoneLast |-> [passes |-> <<G, G, AC, G>>,
                   res |-> <<Res(4, "r4", COMMON), Res(5, "r5", COMMON), Res(6, "r6", COMMON)>>,
                   deps |-> <<Out(0, 4, UNORDERED_ACCESS),
                              In(1, 4, NON_PIXEL_SHADER_RESOURCE), Out(1, 5, UNORDERED_ACCESS),
                              In(2, 5, NON_PIXEL_SHADER_RESOURCE), Out(2, 6, UNORDERED_ACCESS),
                              In(3, 6, NON_PIXEL_SHADER_RESOURCE)>>],
     \* a compute pass writing a render target
     ComputeTarget |-> [passes |-> <<AC>>,
                        res |-> <<Res(4, "r4", COMMON)>>,
                        deps |-> <<Out(0, 4, RENDER_TARGET)>>],
     \* a pass reading and a pass writing in a state of a read and a write bit
     Mixed |-> [passes |-> <<G, G>>,
                res |-> <<Res(4, "r4", COMMON), Res(5, "r5", COMMON)>>,
                deps |-> <<In(0, 4, NON_PIXEL_SHADER_RESOURCE \cup UNORDERED_ACCESS),
                           Out(1, 5, NON_PIXEL_SHADER_RESOURCE \cup UNORDERED_ACCESS)>>],
     \* a render target written as unordered access, then read
     Linear |-> [passes |-> <<G, G>>,
                 res |-> <<Res(4, "r4", RENDER_TARGET)>>,
                 deps |-> <<Out(0, 4, UNORDERED_ACCESS),
                            In(1, 4, NON_PIXEL_SHADER_RESOURCE)>>],
     \* a pass with its own command list, then a chain of three passes
     Late |-> [passes |-> <<GSeparate, G, G, G>>,
               res |-> <<Res(4, "r4", COMMON), Res(5, "r5", COMMON), Res(6, "r6", COMMON)>>,
               deps |-> <<Out(0, 4, RENDER_TARGET),
                          In(1, 4, PIXEL_SHADER_RESOURCE), Out(1, 5, RENDER_TARGET),
                          In(2, 5, PIXEL_SHADER_RESOURCE), Out(2, 6, RENDER_TARGET),
                          In(3, 6, PIXEL_SHADER_RESOURCE)>>],
     \* a pass with a dummy output, then reading and writing r4
     PingPong |-> [passes |-> <<G>>,
                   res |-> <<Res(0, NullRes, COMMON), Res(4, "r4", COMMON)>>,
                   deps |-> <<Out(0, 0, UNORDERED_ACCESS),
                              In(0, 4, NON_PIXEL_SHADER_RESOURCE),
                              Out(0, 4, UNORDERED_ACCESS)>>],
     \* a graphics pass writing a render target and an unordered-access
     \* resource, and two compute passes of one batch reading one each
     Unsupported |-> [passes |-> <<G, AC, AC>>,
                      res |-> <<Res(4, "r4", COMMON), Res(5, "r5", COMMON)>>,
                      deps |-> <<Out(0, 4, RENDER_TARGET), Out(0, 5, UNORDERED_ACCESS),
                                 In(1, 4, NON_PIXEL_SHADER_RESOURCE),
                                 In(2, 5, NON_PIXEL_SHADER_RESOURCE)>>],
     \* a pass reading, as ALL_SHADER_RESOURCE, a resource registered in
     \* NON_PIXEL_SHADER_RESOURCE
     Overlap |-> [passes |-> <<G>>,
                  res |-> <<Res(4, "r4", NON_PIXEL_SHADER_RESOURCE)>>,
                  deps |-> <<In(0, 4, ALL_SHADER_RESOURCE)>>],
     \* a graphics pass, a compute pass writing r4, and two graphics passes
     \* of one batch reading r4, the second with its own command list
     SharedFence |-> [passes |-> <<G, AC, G, GSeparate>>,
                      res |-> <<Res(4, "r4", COMMON)>>,
                      deps |-> <<Out(1, 4, UNORDERED_ACCESS),
                                 In(2, 4, NON_PIXEL_SHADER_RESOURCE),
                                 In(3, 4, NON_PIXEL_SHADER_RESOURCE)>>],
     \* two passes of one batch reading one resource in different states
     Readers |-> [passes |-> <<G, G>>,
                  res |-> <<Res(4, "r4", COMMON)>>,
                  deps |-> <<In(0, 4, NON_PIXEL_SHADER_RESOURCE),
                             In(1, 4, PIXEL_SHADER_RESOURCE)>>]]

FreeResources == <<Res(4, "r4", COMMON), Res(5, "r5", COMMON)>>
DepPaths == {0, 4, 5, 6, 7, 8}
InputStates == {NON_PIXEL_SHADER_RESOURCE, PIXEL_SHADER_RESOURCE, ALL_SHADER_RESOURCE,
                NON_PIXEL_SHADER_RESOURCE \cup UNORDERED_ACCESS}
OutputStates == {RENDER_TARGET, UNORDERED_ACCESS,
                 NON_PIXEL_SHADER_RESOURCE \cup UNORDERED_ACCESS}

Scripted == scenario \in DOMAIN Scenarios
ClientResources == IF Scripted THEN Scenarios[scenario].res ELSE FreeResources
ResourcesRegistered == Cardinality(client.regd) = Len(ClientResources)

PassAllowed(t, fs) ==
    IF Scripted
    THEN /\ currRenderPassIdx < Len(Scenarios[scenario].passes)
         /\ Scenarios[scenario].passes[currRenderPassIdx + 1] = <<t, fs>>
    ELSE currRenderPassIdx < MaxGraphPasses

PassesRegistered ==
    IF Scripted THEN currRenderPassIdx = Len(Scenarios[scenario].passes)
    ELSE currRenderPassIdx >= 1

DepKey(h, path, kind) == (h * 100 + path) * 2 + kind
LastDepKey ==
    IF client.lastOp[1] \in {"AddInput", "AddOutput"}
    THEN DepKey(client.lastOp[2][1], client.lastOp[2][2], client.lastOp[2][3])
    ELSE -1

DepAllowed(kind, h, path, state) ==
    IF Scripted
    THEN /\ client.ndeps < Len(Scenarios[scenario].deps)
         /\ Scenarios[scenario].deps[client.ndeps + 1] = <<kind, h, path, state>>
    ELSE /\ client.ndeps < MaxGraphDeps
         /\ \E k \in 1 .. Len(FreeResources) : FreeResources[k].path = path
         /\ state = IF kind = 0 THEN NON_PIXEL_SHADER_RESOURCE ELSE UNORDERED_ACCESS
         /\ DepKey(h, path, kind) > LastDepKey

DepsDeclared == Scripted => client.ndeps = Len(Scenarios[scenario].deps)

GBeginFrame == frameNo = 0 /\ BeginFrame

GRegisterResource ==
    /\ currRenderPassIdx = 0
    /\ Cardinality(client.regd) < Len(ClientResources)
    /\ LET r == ClientResources[Cardinality(client.regd) + 1]
       IN  RegisterResource(r.res, r.path, r.init, FALSE)

GRegisterRenderPass ==
    \E t \in {GRAPHICS, ASYNC_COMPUTE}, fs \in BOOLEAN :
        /\ ResourcesRegistered
        /\ PassAllowed(t, fs)
        /\ RegisterRenderPass(t, fs)

GMoveToPostRegister == ResourcesRegistered /\ PassesRegistered /\ MoveToPostRegister

GAddInput ==
    \E h \in 0 .. (currRenderPassIdx - 1), path \in DepPaths, state \in InputStates :
        DepAllowed(0, h, path, state) /\ AddInput(h, path, state)

GAddOutput ==
    \E h \in 0 .. (currRenderPassIdx - 1), path \in DepPaths, state \in OutputStates :
        DepAllowed(1, h, path, state) /\ AddOutput(h, path, state)

GBuild == DepsDeclared /\ Build

NextGraph ==
    \/ GBeginFrame
    \/ GRegisterResource
    \/ GRegisterRenderPass
    \/ GMoveToPostRegister
    \/ GAddInput
    \/ GAddOutput
    \/ GBuild

InitGraph == InitProgram /\ InitEnv(DOMAIN Scenarios \cup {"free"}, {FALSE})

SpecGraph == InitGraph /\ [][NextGraph]_vars

(***************************************************************************)
(* A scripted client that declares the same graph in consecutive frames    *)
(***************************************************************************)
FBeginFrame == (frameNo = 0 \/ client.lastOp[1] = "Build") /\ BeginFrame

NextFrames ==
    \/ FBeginFrame
    \/ GRegisterResource
    \/ GRegisterRenderPass
    \/ GMoveToPostRegister
    \/ GAddInput
    \/ GAddOutput
    \/ GBuild

InitFrames == InitProgram /\ InitEnv(DOMAIN Scenarios, {FALSE})

SpecFrames == InitFrames /\ [][NextFrames]_vars

(***************************************************************************)
(* The body of the task BuildTaskGraph emits for aggregate i (from 0).     *)
(*                                                                         *)
(* The body's steps thread a record b: b.aggs is m_aggregateNodes,         *)
(* b.merged is m_mergedCmdLists, b.rs the state of every native resource   *)
(* after the barriers recorded so far, b.cmdList the command list          *)
(* acquired, b.ex what the execution has done.  A command list is named    *)
(* by the aggregate that acquired it.  An assertion of the body that       *)
(* fails ends the program unless the build compiles assertions out         *)
(* (NDEBUG); then execution goes on.  A use of a null command list either  *)
(* ends the program (crash) or goes unnoticed.  b.called counts the        *)
(* callbacks the body has invoked.                                         *)
(***************************************************************************)
\* lines 449-468
AcquireCmdList(b, i) ==
    LET node == b.aggs[i + 1]
        idx == node.MergedCmdListIdx
    IN  IF node.MergeStart
        THEN IF b.merged[idx] # NullCmd /\ ~NDEBUG
             THEN Fail(b, "Merged command list should be initially NULL.")
             ELSE [b EXCEPT !.merged[idx] = i, !.cmdList = i]
        ELSE IF idx # -1
        THEN IF b.merged[idx] = NullCmd /\ ~NDEBUG
             THEN Fail(b, "Merged command list should've been initialized at this point.")
             ELSE [b EXCEPT !.cmdList = b.merged[idx]]
        ELSE [b EXCEPT !.cmdList = i]

\* ResourceBarrier: the resources are in StateAfter from here on
ApplyBarriers(rs, barriers) ==
    FoldLeft(LAMBDA r, bar : [r EXCEPT ![bar.Res] = bar.StateAfter], rs, barriers)

Submission(i, kind) == [agg |-> i, kind |-> kind]

\* the barriers of aggregate i as recorded on a command list: its own
\* ("own") or the graphics list acquired for the barriers ("barrier")
Recorded(i, list, barriers) ==
    {[agg |-> i, list |-> list, bar |-> bar] : bar \in Range(barriers)}

\* renderer.WaitForDirectQueueOnComputeQueue(f) of the barrier list's fence,
\* after `called` callbacks of the aggregate
BarrierWait(i, fence, called) == [agg |-> i, fence |-> fence, called |-> called]

\* lines 474-491 with every barrier on the aggregate's own command list
RecordBarriersOnOwnList(b, i, crash) ==
    LET node == b.aggs[i + 1]
    IN  IF ~Ok(b) \/ node.Barriers = <<>> THEN b
        ELSE [b EXCEPT !.rs = ApplyBarriers(@, node.Barriers),
                       !.ex.recorded = @ \cup Recorded(i, "own", node.Barriers)]

\* lines 474-491
RecordBarriers(b, i, crash) ==
    LET node == b.aggs[i + 1]
    IN  IF ~Ok(b) THEN b
        ELSE IF node.HasUnsupportedBarrier
        THEN [b EXCEPT !.rs = ApplyBarriers(@, node.Barriers),
                       !.ex.recorded = @ \cup Recorded(i, "barrier", node.Barriers),
                       !.ex.submissions = Append(@, Submission(i, "barriers")),
                       !.ex.waits = @ \cup {BarrierWait(i, Len(b.ex.submissions) + 1,
                                                        b.called)}]
        ELSE IF node.Barriers = <<>> THEN b
        ELSE IF b.cmdList = NullCmd /\ crash
        THEN Fail(b, "ResourceBarrier on a null command list")
        ELSE [b EXCEPT !.rs = ApplyBarriers(@, node.Barriers),
                       !.ex.recorded = @ \cup Recorded(i, "own", node.Barriers)]

\* what the callback of the pass registered as dlg finds: for every input
\* that names a real resource, the state the resource is in
Observations(dlg, rs) ==
    LET node == renderNodes[mapping[dlg]]
    IN  {[node |-> dlg, res |-> node.Inputs[k].ResID,
          seen |-> rs[frameResources[FindFrameResourceAll(frameResources, lastResIdx,
                                                          node.Inputs[k].ResID)].Res],
          expected |-> node.Inputs[k].ExpectedState] :
            k \in {m \in 1 .. Len(node.Inputs) : node.Inputs[m].ResID >= DUMMY_RES_COUNT}}

\* lines 494-495
InvokeCallbacks(b, i, crash) ==
    IF ~Ok(b) THEN b
    ELSE IF b.cmdList = NullCmd /\ crash THEN Fail(b, "callback on a null command list")
    ELSE [b EXCEPT !.ex.observed =
              @ \cup UNION {Observations(dlg, b.rs) : dlg \in Range(b.aggs[i + 1].Dlgs)},
                   !.called = @ + Len(b.aggs[i + 1].Dlgs)]

Lookup(i, dep, fence) == [agg |-> i, dep |-> dep, fence |-> fence]

WithLookup(b, i, dep, fence) ==
    IF fence = UNSET_FENCE /\ ~NDEBUG
    THEN Fail([b EXCEPT !.ex.lookups = @ \cup {Lookup(i, dep, fence)}],
              "GPU hasn't finished executing.")
    ELSE [b EXCEPT !.ex.lookups = @ \cup {Lookup(i, dep, fence)}]

\* lines 498-507
WaitForGpuFence(b, i) ==
    LET node == b.aggs[i + 1]
    IN  IF ~Ok(b) \/ node.HasUnsupportedBarrier \/ node.GpuDepIdx = -1 THEN b
        ELSE WithLookup(b, i, node.GpuDepIdx, b.aggs[node.GpuDepIdx + 1].CompletionFence)

\* the aggregates the loop at lines 524-529 writes to
ChainBefore(aggs, i) ==
    {k \in 0 .. (i - 1) :
        \A m \in k .. (i - 1) :
            aggs[m + 1].MergedCmdListIdx = aggs[i + 1].MergedCmdListIdx}

\* lines 520-530 with a loop that runs down to aggregate 0 whatever the
\* indices are
EndMergeAllBefore(b, i, fence, hit) ==
    [b EXCEPT !.merged[b.aggs[i + 1].MergedCmdListIdx] = NullCmd,
              !.aggs = [k \in DOMAIN b.aggs |->
                          IF k - 1 < i THEN [b.aggs[k] EXCEPT !.CompletionFence = fence]
                          ELSE b.aggs[k]]]

\* lines 520-530; when the loop passes aggregate 0 it reads the element before
\* the first, and hit says what it finds there equals the chain's index
EndMerge(b, i, fence, hit) ==
    IF 0 \in ChainBefore(b.aggs, i) /\ hit
    THEN Fail(b, "write before the first element of m_aggregateNodes")
    ELSE [b EXCEPT !.merged[b.aggs[i + 1].MergedCmdListIdx] = NullCmd,
                   !.aggs = [k \in DOMAIN b.aggs |->
                               IF (k - 1) \in ChainBefore(b.aggs, i)
                               THEN [b.aggs[k] EXCEPT !.CompletionFence = fence]
                               ELSE b.aggs[k]]]

\* renderer.ExecuteCmdList(cmdList): the fence is the number of the submission
ExecuteCmdList(b, i) ==
    [b EXCEPT !.aggs[i + 1].CompletionFence = Len(b.ex.submissions) + 1,
              !.ex.submissions = Append(@, Submission(i, "list"))]

\* lines 516-531
Submit(b, i, hit) ==
    LET node == b.aggs[i + 1]
    IN  IF ~Ok(b) THEN b
        ELSE IF ~(node.MergedCmdListIdx = -1 \/ node.MergeEnd) THEN b
        ELSE IF b.cmdList = NullCmd THEN Fail(b, "ExecuteCmdList on a null command list")
        ELSE IF node.MergeEnd
        THEN EndMerge(ExecuteCmdList(b, i), i, Len(b.ex.submissions) + 1, hit)
        ELSE ExecuteCmdList(b, i)

\* lines 533-537; exec.notified keeps, per Notify, the aggregate and the
\* submissions made before it
NotifySubmission(b, i) ==
    IF Ok(b) /\ b.waitObj /\ b.aggs[i + 1].IsLast
    THEN [b EXCEPT !.ex.notified = Append(@, [agg |-> i, after |-> Range(b.ex.submissions)]),
                   !.waitObj = FALSE]
    ELSE b

\* the steps of the task body in the order of the code, each applied to what
\* the step before it left
TaskBody(i, crash, hit) ==
    CHOOSE done \in
      {NotifySubmission(submitted, i) : submitted \in
        {Submit(waited, i, hit) : waited \in
          {WaitForGpuFence(called, i) : called \in
            {InvokeCallbacks(recorded, i, crash) : recorded \in
              {RecordBarriers(acquired, i, crash) : acquired \in
                {AcquireCmdList([aggs |-> aggregateNodes, merged |-> mergedCmdLists,
                                 rs |-> resState, ex |-> exec, cmdList |-> NullCmd,
                                 called |-> 0, waitObj |-> submissionWaitObj,
                                 err |-> ""],
                                i)}}}}}} : TRUE

(***************************************************************************)
(* The pool (ThreadPool.cpp) running the frame's task set.  The main       *)
(* thread enqueues the set and then calls TryFlush until it returns true;  *)
(* the workers take tasks as they come.                                    *)
(***************************************************************************)
At(t, pc, task) == [threads EXCEPT ![t].pc = pc, ![t].task = task]

\* TaskSet::Finalize: a task waits for one signal per inbound edge
InboundSignals(edges) ==
    [j \in NodeIdx |-> Cardinality({e \in edges : e[2] = j})]

\* Enqueue(TaskSet&&) of the set Build filled
EnqueueTaskSet ==
    /\ Running
    /\ threads[Main].pc = "client"
    /\ client.lastOp[1] = "Build"
    /\ numTasksToFinishTarget' = numTasksToFinishTarget + Len(aggregateNodes)
    /\ numTasksInQueue' = numTasksInQueue + Len(aggregateNodes)
    /\ taskQueue' = taskQueue \o [k \in 1 .. Len(aggregateNodes) |-> k - 1]
    /\ signals' = InboundSignals(taskEdges)
    /\ threads' = At(Main, "flush", NoTask)
    /\ client' = Note("Enqueue", <<>>)
    /\ UNCHANGED <<resVars, nodeVars, failed, frameNo, numTasksFinished, mergedCmdLists, submissionWaitObj,
                   exec, resState, shutdown, envVars>>

\* SetFrameSubmissionWaitObj, called by the main thread between Build and
\* the enqueue of the task set
SetFrameSubmissionWaitObj ==
    /\ Running
    /\ threads[Main].pc = "client"
    /\ client.lastOp[1] = "Build"
    /\ ~submissionWaitObj
    /\ submissionWaitObj' = TRUE
    /\ exec' = [exec EXCEPT !.registered = TRUE]
    /\ UNCHANGED <<resVars, nodeVars, failed, frameNo, poolVars, mergedCmdLists,
                   resState, envVars, client>>

\* WorkerThread: the load of m_shutdown at the top of the loop
WorkerCheckShutdown(t) ==
    /\ Running
    /\ threads[t].pc = "top"
    /\ threads' = At(t, IF shutdown THEN "exited" ELSE "idle", NoTask)
    /\ UNCHANGED <<resVars, nodeVars, failed, frameNo, taskQueue, numTasksInQueue,
                   numTasksFinished, numTasksToFinishTarget, signals, shutdown,
                   mergedCmdLists, submissionWaitObj, exec, resState, envVars, client>>

\* WorkerThread: wait_dequeue and the decrement of m_numTasksInQueue
WorkerDequeue(t) ==
    /\ Running
    /\ threads[t].pc = "idle"
    /\ taskQueue # <<>>
    /\ taskQueue' = Tail(taskQueue)
    /\ numTasksInQueue' = numTasksInQueue - 1
    /\ threads' = At(t, IF GetPriority(Head(taskQueue)) # BACKGROUND THEN "wait" ELSE "body",
                      Head(taskQueue))
    /\ UNCHANGED <<resVars, nodeVars, failed, frameNo, numTasksFinished,
                   numTasksToFinishTarget, signals, mergedCmdLists, submissionWaitObj, exec, resState,
                   shutdown, envVars, client>>

\* App::WaitForAdjacentHeadNodes returns once every inbound signal has come
WaitForAdjacentHeadNodes(t) ==
    /\ Running
    /\ threads[t].pc = "wait"
    /\ GetSignalHandle(threads[t].task) # -1 => signals[GetSignalHandle(threads[t].task)] = 0
    /\ threads' = At(t, "body", threads[t].task)
    /\ UNCHANGED <<resVars, nodeVars, failed, frameNo, taskQueue, numTasksInQueue,
                   numTasksFinished, numTasksToFinishTarget, signals, mergedCmdLists, submissionWaitObj,
                   exec, resState, shutdown, envVars, client>>

TaskEffect(r, t) ==
    IF ~Ok(r)
    THEN /\ failed' = r.err
         /\ exec' = r.ex
         /\ UNCHANGED <<aggregateNodes, mergedCmdLists, submissionWaitObj, resState, threads>>
    ELSE /\ aggregateNodes' = r.aggs
         /\ mergedCmdLists' = r.merged
         /\ submissionWaitObj' = r.waitObj
         /\ resState' = r.rs
         /\ exec' = [r.ex EXCEPT !.done = @ \cup {threads[t].task}]
         /\ threads' = At(t, "signal", threads[t].task)
         /\ UNCHANGED failed

\* task.DoTask()
DoTask(t) ==
    /\ Running
    /\ threads[t].pc = "body"
    /\ IF IsPlain(threads[t].task)
       THEN /\ threads' = At(t, "signal", threads[t].task)
            /\ UNCHANGED <<aggregateNodes, mergedCmdLists, submissionWaitObj, resState, exec, failed>>
       ELSE \E crash \in BOOLEAN, hit \in BOOLEAN :
               \E r \in {TaskBody(threads[t].task, crash, hit)} : TaskEffect(r, t)
    /\ UNCHANGED <<resVars, renderNodes, currRenderPassIdx, mapping, taskEdges, frameNo,
                   taskQueue, numTasksInQueue, numTasksFinished, numTasksToFinishTarget,
                   signals, shutdown, envVars, client>>

\* App::SignalAdjacentTailNodes and the increment of m_numTasksFinished
SignalAdjacentTailNodes(t) ==
    /\ Running
    /\ threads[t].pc = "signal"
    /\ signals' = [j \in NodeIdx |->
                     IF /\ <<GetSignalHandle(threads[t].task), j>> \in taskEdges
                        /\ (t \in Workers => GetPriority(threads[t].task) # BACKGROUND)
                     THEN signals[j] - 1
                     ELSE signals[j]]
    /\ numTasksFinished' = numTasksFinished + 1
    /\ threads' = At(t, IF t = Main THEN "pump" ELSE "top", NoTask)
    /\ UNCHANGED <<resVars, nodeVars, failed, frameNo, taskQueue, numTasksInQueue,
                   numTasksToFinishTarget, mergedCmdLists, submissionWaitObj, exec, resState, shutdown, envVars, client>>

\* PumpUntilEmpty: one turn of the loop that finds a task
PumpDequeue ==
    /\ Running
    /\ threads[Main].pc = "pump"
    /\ numTasksInQueue # 0
    /\ taskQueue # <<>>
    /\ taskQueue' = Tail(taskQueue)
    /\ numTasksInQueue' = numTasksInQueue - 1
    /\ threads' = At(Main, "wait", Head(taskQueue))
    /\ UNCHANGED <<resVars, nodeVars, failed, frameNo, numTasksFinished,
                   numTasksToFinishTarget, signals, mergedCmdLists, submissionWaitObj, exec, resState,
                   shutdown, envVars, client>>

\* PumpUntilEmpty leaves its loop and TryFlush returns false
PumpReturn ==
    /\ Running
    /\ threads[Main].pc = "pump"
    /\ numTasksInQueue = 0
    /\ threads' = At(Main, "flush", NoTask)
    /\ exec' = [exec EXCEPT !.flush = "false", !.pumped = TRUE]
    /\ UNCHANGED <<resVars, nodeVars, failed, frameNo, taskQueue, numTasksInQueue,
                   numTasksFinished, numTasksToFinishTarget, signals, mergedCmdLists, submissionWaitObj,
                   resState, shutdown, envVars, client>>

\* TryFlush: the load of m_numTasksFinished
TryFlushLoad ==
    /\ Running
    /\ threads[Main].pc = "flush"
    /\ threads' = [threads EXCEPT ![Main].pc = "compare",
                                  ![Main].loaded = numTasksFinished]
    /\ UNCHANGED <<resVars, nodeVars, failed, frameNo, taskQueue, numTasksInQueue,
                   numTasksFinished, numTasksToFinishTarget, signals, mergedCmdLists, submissionWaitObj,
                   exec, resState, shutdown, envVars, client>>

FlushSuccessAtMost(finished, target) == finished <= target

FlushSuccess(finished, target) == finished = target

\* TryFlush: the load of m_numTasksToFinishTarget and the branch on success
TryFlushCompare ==
    /\ Running
    /\ threads[Main].pc = "compare"
    /\ IF FlushSuccess(threads[Main].loaded, numTasksToFinishTarget)
       THEN /\ numTasksFinished' = 0
            /\ numTasksToFinishTarget' = 0
            /\ threads' = [threads EXCEPT ![Main].pc = "flushed", ![Main].loaded = 0]
            /\ exec' = [exec EXCEPT !.flush = "true"]
       ELSE /\ threads' = [threads EXCEPT ![Main].pc = "pump", ![Main].loaded = 0]
            /\ UNCHANGED <<numTasksFinished, numTasksToFinishTarget, exec>>
    /\ UNCHANGED <<resVars, nodeVars, failed, frameNo, taskQueue, numTasksInQueue,
                   signals, mergedCmdLists, submissionWaitObj, resState, shutdown, envVars, client>>

Next ==
    \/ GBeginFrame
    \/ GRegisterResource
    \/ GRegisterRenderPass
    \/ GMoveToPostRegister
    \/ GAddInput
    \/ GAddOutput
    \/ GBuild
    \/ SetFrameSubmissionWaitObj
    \/ EnqueueTaskSet
    \/ \E t \in Workers : WorkerCheckShutdown(t)
    \/ \E t \in Workers : WorkerDequeue(t)
    \/ \E t \in Threads : WaitForAdjacentHeadNodes(t)
    \/ \E t \in Threads : DoTask(t)
    \/ \E t \in Threads : SignalAdjacentTailNodes(t)
    \/ PumpDequeue
    \/ PumpReturn
    \/ TryFlushLoad
    \/ TryFlushCompare

InitRun == InitProgram /\ InitEnv(DOMAIN Scenarios, BOOLEAN)

Spec == InitRun /\ [][Next]_vars

(***************************************************************************)
(* SpecShutdown: the pool with a main thread that enqueues up to MaxTasks   *)
(* tasks of its own and then flushes, and a second thread outside the pool *)
(* that calls Shutdown at any moment.  threads[Caller].loaded is           *)
(* Shutdown's loop counter.  A thread that can take a step eventually      *)
(* takes one, except that the main thread may stop enqueueing.             *)
(***************************************************************************)
\* Enqueue(Task&&) by the main thread, which then enqueues again or flushes
EnqueueTask ==
    /\ Running
    /\ threads[Main].pc = "client"
    /\ \E more \in BOOLEAN :
          /\ IF more
             THEN /\ numTasksToFinishTarget < MaxTasks
                  /\ taskQueue' = Append(taskQueue, PlainTask)
                  /\ numTasksToFinishTarget' = numTasksToFinishTarget + 1
                  /\ numTasksInQueue' = numTasksInQueue + 1
                  /\ UNCHANGED threads
             ELSE /\ threads' = At(Main, "flush", NoTask)
                  /\ UNCHANGED <<taskQueue, numTasksToFinishTarget, numTasksInQueue>>
    /\ UNCHANGED <<resVars, nodeVars, failed, frameNo, numTasksFinished, signals,
                   shutdown, mergedCmdLists, submissionWaitObj, exec, resState, envVars, client>>

\* Shutdown: the store to m_shutdown
ShutdownStore ==
    /\ Running
    /\ threads[Caller].pc = "away"
    /\ shutdown' = TRUE
    /\ threads' = [threads EXCEPT ![Caller].pc = "enqueue", ![Caller].loaded = 0]
    /\ UNCHANGED <<resVars, nodeVars, failed, frameNo, taskQueue, numTasksInQueue,
                   numTasksFinished, numTasksToFinishTarget, signals, mergedCmdLists, submissionWaitObj,
                   exec, resState, envVars, client>>

\* Shutdown: one turn of the loop that enqueues a NoOp task per pool thread
\* (Enqueue(Task&&))
ShutdownEnqueue ==
    /\ Running
    /\ threads[Caller].pc = "enqueue"
    /\ taskQueue' = Append(taskQueue, NoOp)
    /\ numTasksToFinishTarget' = numTasksToFinishTarget + 1
    /\ numTasksInQueue' = numTasksInQueue + 1
    /\ threads' = IF threads[Caller].loaded + 1 < NumWorkers
                  THEN [threads EXCEPT ![Caller].loaded = @ + 1]
                  ELSE [threads EXCEPT ![Caller].pc = "join", ![Caller].loaded = 0]
    /\ UNCHANGED <<resVars, nodeVars, failed, frameNo, numTasksFinished, signals,
                   shutdown, mergedCmdLists, submissionWaitObj, exec, resState, envVars, client>>

\* Shutdown: m_threadPool[i].join() returns once worker i has left its loop
ShutdownJoin ==
    /\ Running
    /\ threads[Caller].pc = "join"
    /\ threads[threads[Caller].loaded + 1].pc = "exited"
    /\ threads' = IF threads[Caller].loaded + 1 < NumWorkers
                  THEN [threads EXCEPT ![Caller].loaded = @ + 1]
                  ELSE [threads EXCEPT ![Caller].pc = "joined", ![Caller].loaded = 0]
    /\ UNCHANGED <<resVars, nodeVars, failed, frameNo, taskQueue, numTasksInQueue,
                   numTasksFinished, numTasksToFinishTarget, signals, shutdown,
                   mergedCmdLists, submissionWaitObj, exec, resState, envVars, client>>

\* the steps of the main thread inside TryFlush and PumpUntilEmpty
MainStep ==
    \/ WaitForAdjacentHeadNodes(Main)
    \/ DoTask(Main)
    \/ SignalAdjacentTailNodes(Main)
    \/ PumpDequeue
    \/ PumpReturn
    \/ TryFlushLoad
    \/ TryFlushCompare

\* the steps of pool thread t
WorkerStep(t) ==
    \/ WorkerCheckShutdown(t)
    \/ WorkerDequeue(t)
    \/ WaitForAdjacentHeadNodes(t)
    \/ DoTask(t)
    \/ SignalAdjacentTailNodes(t)

\* the steps of the thread that calls Shutdown
CallerStep == ShutdownStore \/ ShutdownEnqueue \/ ShutdownJoin

NextShutdown ==
    \/ EnqueueTask
    \/ MainStep
    \/ \E t \in Workers : WorkerStep(t)
    \/ ShutdownStore
    \/ ShutdownEnqueue
    \/ ShutdownJoin

InitShutdown == InitProgram /\ InitEnv({"pool"}, BOOLEAN)

SpecShutdown ==
    /\ InitShutdown
    /\ [][NextShutdown]_vars
    /\ WF_vars(MainStep)
    /\ \A t \in Workers : WF_vars(WorkerStep(t))
    /\ WF_vars(CallerStep)

(***************************************************************************)
(* SpecTaskSet: the pool given one finalized task set by the main thread:  *)
(* MaxTasks tasks, each of priority NORMAL or BACKGROUND, with any edges   *)
(* from a task to a later task of the set.  The main thread then flushes.  *)
(***************************************************************************)
SetHandles == 0 .. (MaxTasks - 1)
SetEdges == {e \in SetHandles \X SetHandles : e[1] < e[2]}

\* Enqueue(TaskSet&&) of a set the main thread filled and finalized
EnqueueClientTaskSet ==
    /\ Running
    /\ threads[Main].pc = "client"
    /\ \E edges \in SUBSET SetEdges, prio \in SUBSET SetHandles :
          /\ taskEdges' = edges
          /\ background' = prio
          /\ signals' = InboundSignals(edges)
    /\ numTasksToFinishTarget' = numTasksToFinishTarget + MaxTasks
    /\ numTasksInQueue' = numTasksInQueue + MaxTasks
    /\ taskQueue' = taskQueue \o [k \in 1 .. MaxTasks |-> SetTask(k - 1)]
    /\ threads' = At(Main, "flush", NoTask)
    /\ UNCHANGED <<resVars, renderNodes, currRenderPassIdx, mapping, aggregateNodes,
                   failed, frameNo, numTasksFinished, mergedCmdLists, submissionWaitObj,
                   exec, resState, shutdown, scenario, NDEBUG, client>>

NextTaskSet ==
    \/ EnqueueClientTaskSet
    \/ MainStep
    \/ \E t \in Workers : WorkerStep(t)

InitTaskSet == InitProgram /\ InitEnv({"taskset"}, {FALSE})

SpecTaskSet == InitTaskSet /\ [][NextTaskSet]_vars

(***************************************************************************)
(* SpecEnqueue: the calls of the pool statement by statement.  The main    *)
(* thread and a second registered thread each enqueue tasks of their own,  *)
(* one at a time or as a set, at most MaxTasks in all; the main thread     *)
(* calls TryFlush between its enqueues; the workers take tasks as they     *)
(* come.  A step is one access to a shared variable of ThreadPool.  The    *)
(* i-th task handed to the pool is SetTask(i); it has no edges.            *)
(* client.issued counts the tasks handed to Enqueue so far, client.pushed  *)
(* the tasks that reached the queue, client.returned the tasks whose       *)
(* Enqueue call has returned, client.seen the tasks whose Enqueue call had *)
(* returned when the main thread last entered TryFlush.  While a thread is *)
(* in Enqueue, threads[p].task is the (first) task it enqueues and, for a  *)
(* set, threads[p].loaded is ts.GetSize().                                 *)
(***************************************************************************)
Producers == {Main, Caller}

\* where thread p is when it is not inside a call of the pool
Home(p) == IF p = Main THEN "client" ELSE "away"

\* the tasks of the call p is in
CallTasks(p) ==
    {SetTask(GetSignalHandle(threads[p].task) + k) : k \in 0 .. (threads[p].loaded - 1)}

\* Enqueue(Task&&): m_taskQueue.enqueue
EnqueuePush(p) ==
    /\ Running
    /\ threads[p].pc = Home(p)
    /\ client.issued < MaxTasks
    /\ taskQueue' = Append(taskQueue, SetTask(client.issued))
    /\ threads' = [threads EXCEPT ![p] = [pc |-> "target", task |-> SetTask(client.issued),
                                          loaded |-> 1]]
    /\ client' = [client EXCEPT !.issued = @ + 1, !.pushed = @ \cup {SetTask(client.issued)}]
    /\ UNCHANGED <<resVars, nodeVars, failed, frameNo, numTasksInQueue, numTasksFinished,
                   numTasksToFinishTarget, signals, shutdown, mergedCmdLists,
                   submissionWaitObj, exec, resState, envVars>>

\* Enqueue(Task&&): m_numTasksToFinishTarget.fetch_add(1)
EnqueueTarget(p) ==
    /\ Running
    /\ threads[p].pc = "target"
    /\ numTasksToFinishTarget' = numTasksToFinishTarget + 1
    /\ threads' = At(p, "count", threads[p].task)
    /\ UNCHANGED <<resVars, nodeVars, failed, frameNo, taskQueue, numTasksInQueue,
                   numTasksFinished, signals, shutdown, mergedCmdLists, submissionWaitObj,
                   exec, resState, envVars, client>>

\* Enqueue(Task&&): m_numTasksInQueue.fetch_add(1) and the return
EnqueueCount(p) ==
    /\ Running
    /\ threads[p].pc = "count"
    /\ numTasksInQueue' = numTasksInQueue + 1
    /\ threads' = [threads EXCEPT ![p] = [pc |-> Home(p), task |-> NoTask, loaded |-> 0]]
    /\ client' = [client EXCEPT !.returned = @ \cup CallTasks(p)]
    /\ UNCHANGED <<resVars, nodeVars, failed, frameNo, taskQueue, numTasksFinished,
                   numTasksToFinishTarget, signals, shutdown, mergedCmdLists,
                   submissionWaitObj, exec, resState, envVars>>

\* Enqueue(TaskSet&&): m_numTasksToFinishTarget.fetch_add(ts.GetSize())
EnqueueSetTarget(p) ==
    /\ Running
    /\ threads[p].pc = Home(p)
    /\ \E size \in 1 .. (MaxTasks - client.issued) :
          /\ numTasksToFinishTarget' = numTasksToFinishTarget + size
          /\ threads' = [threads EXCEPT ![p] = [pc |-> "setcount",
                                                task |-> SetTask(client.issued),
                                                loaded |-> size]]
          /\ client' = [client EXCEPT !.issued = @ + size]
    /\ UNCHANGED <<resVars, nodeVars, failed, frameNo, taskQueue, numTasksInQueue,
                   numTasksFinished, signals, shutdown, mergedCmdLists, submissionWaitObj,
                   exec, resState, envVars>>

\* Enqueue(TaskSet&&): m_numTasksInQueue.fetch_add(ts.GetSize())
EnqueueSetCount(p) ==
    /\ Running
    /\ threads[p].pc = "setcount"
    /\ numTasksInQueue' = numTasksInQueue + threads[p].loaded
    /\ threads' = [threads EXCEPT ![p].pc = "bulk"]
    /\ UNCHANGED <<resVars, nodeVars, failed, frameNo, taskQueue, numTasksFinished,
                   numTasksToFinishTarget, signals, shutdown, mergedCmdLists,
                   submissionWaitObj, exec, resState, envVars, client>>

\* Enqueue(TaskSet&&): m_taskQueue.enqueue_bulk and the return
EnqueueBulk(p) ==
    /\ Running
    /\ threads[p].pc = "bulk"
    /\ taskQueue' = taskQueue \o
                    [k \in 1 .. threads[p].loaded |->
                        SetTask(GetSignalHandle(threads[p].task) + k - 1)]
    /\ threads' = [threads EXCEPT ![p] = [pc |-> Home(p), task |-> NoTask, loaded |-> 0]]
    /\ client' = [client EXCEPT !.pushed = @ \cup CallTasks(p),
                                !.returned = @ \cup CallTasks(p)]
    /\ UNCHANGED <<resVars, nodeVars, failed, frameNo, numTasksInQueue, numTasksFinished,
                   numTasksToFinishTarget, signals, shutdown, mergedCmdLists,
                   submissionWaitObj, exec, resState, envVars>>

\* TryFlush is entered, for the first time or again after it returned false:
\* the load of m_numTasksFinished
TryFlushEnter ==
    /\ Running
    /\ threads[Main].pc \in {"client", "flush"}
    /\ threads' = [threads EXCEPT ![Main].pc = "compare",
                                  ![Main].loaded = numTasksFinished]
    /\ client' = [client EXCEPT !.seen = client.returned]
    /\ UNCHANGED <<resVars, nodeVars, failed, frameNo, taskQueue, numTasksInQueue,
                   numTasksFinished, numTasksToFinishTarget, signals, shutdown,
                   mergedCmdLists, submissionWaitObj, exec, resState, envVars>>

\* TryFlush: the load of m_numTasksToFinishTarget and the branch on success
TryFlushBranch ==
    /\ Running
    /\ threads[Main].pc = "compare"
    /\ threads' = [threads EXCEPT
                      ![Main].pc = IF FlushSuccess(threads[Main].loaded,
                                                   numTasksToFinishTarget)
                                   THEN "store" ELSE "pump",
                      ![Main].loaded = 0]
    /\ UNCHANGED <<resVars, nodeVars, failed, frameNo, taskQueue, numTasksInQueue,
                   numTasksFinished, numTasksToFinishTarget, signals, shutdown,
                   mergedCmdLists, submissionWaitObj, exec, resState, envVars, client>>

\* TryFlush: m_numTasksFinished.store(0)
TryFlushStoreFinished ==
    /\ Running
    /\ threads[Main].pc = "store"
    /\ numTasksFinished' = 0
    /\ threads' = At(Main, "store2", NoTask)
    /\ UNCHANGED <<resVars, nodeVars, failed, frameNo, taskQueue, numTasksInQueue,
                   numTasksToFinishTarget, signals, shutdown, mergedCmdLists,
                   submissionWaitObj, exec, resState, envVars, client>>

\* TryFlush: m_numTasksToFinishTarget.store(0) and the return of true
TryFlushStoreTarget ==
    /\ Running
    /\ threads[Main].pc = "store2"
    /\ numTasksToFinishTarget' = 0
    /\ threads' = At(Main, "client", NoTask)
    /\ exec' = [exec EXCEPT !.flush = "true"]
    /\ UNCHANGED <<resVars, nodeVars, failed, frameNo, taskQueue, numTasksInQueue,
                   numTasksFinished, signals, shutdown, mergedCmdLists, submissionWaitObj,
                   resState, envVars, client>>

NextEnqueue ==
    \/ \E p \in Producers : EnqueuePush(p)
    \/ \E p \in Producers : EnqueueTarget(p)
    \/ \E p \in Producers : EnqueueCount(p)
    \/ \E p \in Producers : EnqueueSetTarget(p)
    \/ \E p \in Producers : EnqueueSetCount(p)
    \/ \E p \in Producers : EnqueueBulk(p)
    \/ TryFlushEnter
    \/ TryFlushBranch
    \/ TryFlushStoreFinished
    \/ TryFlushStoreTarget
    \/ PumpDequeue
    \/ PumpReturn
    \/ WaitForAdjacentHeadNodes(Main)
    \/ DoTask(Main)
    \/ SignalAdjacentTailNodes(Main)
    \/ \E t \in Workers : WorkerStep(t)

InitEnqueue == InitProgram /\ InitEnv({"enqueue"}, {FALSE})

SpecEnqueue == InitEnqueue /\ [][NextEnqueue]_vars

(***************************************************************************)
(* SpecFair: the program of Spec under fair scheduling of the threads.  A  *)
(* thread that has a task, or is inside TryFlush or PumpUntilEmpty, and    *)
(* can take its next step eventually takes it.  Nothing is assumed about   *)
(* which thread wins a task: a worker may never return from wait_dequeue,  *)
(* so the behaviours of every smaller pool are among those of this one.    *)
(***************************************************************************)
\* the steps of pool thread t once it holds a task
WorkerRun(t) ==
    \/ WaitForAdjacentHeadNodes(t)
    \/ DoTask(t)
    \/ SignalAdjacentTailNodes(t)

SpecFair ==
    /\ InitRun
    /\ [][Next]_vars
    /\ WF_vars(MainStep)
    /\ \A t \in Workers : WF_vars(WorkerRun(t))

(***************************************************************************)
(* Properties of the resource table (checked under SpecRes)                *)
(***************************************************************************)
\* positions of the previous frames' part of the table before the last call
\* that hold id path
PrevFramePositions(path) ==
    {i \in 0 .. (prevFramesNumResources - 1) : client.before[i].ID = path}

\* C9: right after register_resource(res, path) in a frame that started with
\* one or more previous-frame resources: if path is among them, no entry is
\* added and the entry is rewritten only when its native handle differs
\* (otherwise the table is as it was); if path is not in the table, it is
\* appended at the end.
C9_RegisterResourcePrevFrame ==
    (/\ Running
     /\ client.lastOp[1] = "RegisterResource"
     /\ prevFramesNumResources >= 1)
    => LET path == client.lastOp[2][1]
           res == client.lastOp[2][2]
           present == PrevFramePositions(path)
       IN  IF present # {}
           THEN /\ lastResIdx = client.beforeLast
                /\ \A i \in present :
                      IF client.before[i].Res # res
                      THEN /\ frameResources[i].ID = path
                           /\ frameResources[i].Res = res
                      ELSE frameResources[i] = client.before[i]
                /\ \A i \in ResIdx \ present : frameResources[i] = client.before[i]
           ELSE path \notin LiveIds(client.before, client.beforeLast)
                => /\ lastResIdx = client.beforeLast + 1
                   /\ frameResources[client.beforeLast].ID = path

\* the ids a removal call names
RemovedIds ==
    IF client.lastOp[1] = "RemoveResource" THEN {client.lastOp[2][1]}
    ELSE Range(client.lastOp[2])

IsSortedById(fr, last) == \A i \in 0 .. (last - 2) : fr[i].ID < fr[i + 1].ID

\* C10: right after remove_resource(id) or remove_resources(ids), called
\* outside the begin/end block on a table whose live range was sorted: no
\* removed id is found any more, every other resource of the live range is
\* still in it with its metadata, and the live range is sorted by id.
C10_RemoveKeepsTable ==
    (/\ Running
     /\ client.lastOp[1] \in {"RemoveResource", "RemoveResources"}
     /\ IsSortedById(client.before, client.beforeLast))
    => /\ \A id \in RemovedIds :
             FindFrameResourceAll(frameResources, lastResIdx, id) = -1
       /\ \A i \in 0 .. (client.beforeLast - 1) :
             client.before[i].ID \notin RemovedIds
             => \E j \in 0 .. (lastResIdx - 1) : frameResources[j] = client.before[i]
       /\ IsSortedById(frameResources, lastResIdx)

(***************************************************************************)
(* Properties of a built graph                                             *)
(***************************************************************************)
\* Build has returned: the frame's aggregates exist
Built == ~inBeginEndBlock /\ aggregateNodes # <<>>

SortedIdx == 0 .. (currRenderPassIdx - 1)

\* the node at sorted index c declares an input on a resource the node at
\* sorted index p declared as an output
Consumes(c, p) ==
    \E i \in 1 .. Len(renderNodes[c].Inputs), o \in 1 .. Len(renderNodes[p].Outputs) :
        renderNodes[c].Inputs[i].ResID = renderNodes[p].Outputs[o].ResID

\* C1: after Build, for every two distinct nodes P and C where C declares an
\* input on a resource P declared as an output, P's index in the sorted
\* render-node table is strictly smaller than C's.
C1_TopologicalOrder ==
    Built => \A p \in SortedIdx, c \in SortedIdx :
                (p # c /\ Consumes(c, p)) => p < c

\* a built graph in which a producer was registered after its consumer, so
\* that the sort had to move it
C1_Witness ==
    /\ Built
    /\ \E p \in SortedIdx, c \in SortedIdx :
          /\ p # c /\ Consumes(c, p)
          /\ renderNodes[p].Dlg > renderNodes[c].Dlg

\* the sorted node of the pass registered with handle h
NodeOf(h) == renderNodes[mapping[h]]

\* C11: two consecutive frames with identical declarations yield identical
\* aggregate lists (barrier lists included) and an identical mapping.
C11_IdenticalFrames ==
    (frameNo = 2 /\ Built) =>
        /\ aggregateNodes = client.prevFrame.aggs
        /\ mapping = client.prevFrame.mapping

\* C12: after the sort, mapping is a bijection on [0, node count): every
\* handle maps to a sorted index of its own, and the node stored at sorted
\* index mapping[h] is the node registered with handle h.
C12_MappingBijection ==
    Built =>
        /\ \A h \in SortedIdx : mapping[h] \in SortedIdx /\ renderNodes[mapping[h]].Dlg = h
        /\ \A h1 \in SortedIdx, h2 \in SortedIdx : h1 # h2 => mapping[h1] # mapping[h2]

\* a built graph whose sort moved the three passes around a cycle
C12_Witness ==
    /\ Built
    /\ \E h \in SortedIdx : mapping[h] # h /\ mapping[mapping[h]] # h

\* C5: in the layout of scenario S2 (A, B, C = handles 0, 1, 2 on the
\* graphics queue, X, Y, Z = handles 3, 4, 5 on the compute queue, cross-queue
\* inputs A -> X, B -> Y, C -> Z) the builder gives X a GPU dependency on A,
\* Y one on B and Z one on C.
C5_CrossQueueSync ==
    (scenario = "S2" /\ Built) =>
        /\ NodeOf(3).GpuDepSourceIdx = mapping[0]
        /\ NodeOf(4).GpuDepSourceIdx = mapping[1]
        /\ NodeOf(5).GpuDepSourceIdx = mapping[2]

\* C6: when two graphics passes A and B fall in the same batch and only B
\* forces a separate command list, A's aggregate comes before B's in the
\* aggregate list and the task graph has the edge from A's aggregate to B's.
C6_ForceSeparateInBatch ==
    Built => \A a \in SortedIdx, b \in SortedIdx :
                (/\ renderNodes[a].Type = GRAPHICS /\ renderNodes[b].Type = GRAPHICS
                 /\ renderNodes[a].NodeBatchIdx = renderNodes[b].NodeBatchIdx
                 /\ ~renderNodes[a].ForceSeparateCmdList
                 /\ renderNodes[b].ForceSeparateCmdList)
                => /\ renderNodes[a].AggNodeIdx < renderNodes[b].AggNodeIdx
                   /\ <<renderNodes[a].AggNodeIdx, renderNodes[b].AggNodeIdx>> \in taskEdges

AggPos == 1 .. Len(aggregateNodes)

\* positions s < e bracket a merged run: a start at s, an end at e, and no
\* other start or end from s to e
IsRun(s, e) ==
    /\ s < e
    /\ aggregateNodes[s].MergeStart /\ aggregateNodes[e].MergeEnd
    /\ \A m \in (s + 1) .. e : ~aggregateNodes[m].MergeStart
    /\ \A m \in s .. (e - 1) : ~aggregateNodes[m].MergeEnd

\* C7: after merging, every merge_start opens and every merge_end closes a
\* run of at least two consecutive aggregates that has no other start or end
\* inside it (so brackets never nest or overlap), and every aggregate of a
\* run carries the run's merged command-list index; the builder's own
\* validation of the brackets never fails.
C7_MergeRuns ==
    /\ failed # "RenderGraph: merge validation failed."
    /\ Built =>
         /\ \A s \in AggPos : aggregateNodes[s].MergeStart => \E e \in AggPos : IsRun(s, e)
         /\ \A e \in AggPos : aggregateNodes[e].MergeEnd => \E s \in AggPos : IsRun(s, e)
         /\ \A s \in AggPos, e \in AggPos :
               IsRun(s, e) =>
                  /\ aggregateNodes[s].MergedCmdListIdx # -1
                  /\ \A m \in s .. e : aggregateNodes[m].MergedCmdListIdx =
                                           aggregateNodes[s].MergedCmdListIdx

\* a built graph with a run of three aggregates, or with a run and, after an
\* aggregate that ends it, a lone small aggregate
C7_Witness ==
    /\ Built
    /\ \E s \in AggPos, e \in AggPos :
          /\ IsRun(s, e)
          /\ \/ e >= s + 2
             \/ \E k \in AggPos :
                   /\ k > e + 1
                   /\ ~aggregateNodes[k].IsAsyncCompute /\ ~aggregateNodes[k].ForceSeparate
                   /\ Len(aggregateNodes[k].Dlgs) = 1

(***************************************************************************)
(* Properties of the frame's execution                                     *)
(***************************************************************************)
\* C2: whenever a pass's callback is invoked, every input of the pass names
\* a resource whose state, after all barriers recorded before the callback,
\* contains every bit of the input's expected state.
C2_InputStateAtCallback ==
    \A o \in exec.observed : o.expected \subseteq o.seen

\* C3: whenever an aggregate's task looks up the completion fence of its GPU
\* dependency, that fence has been set.
C3_FenceSetAtLookup ==
    \A l \in exec.lookups : l.fence # UNSET_FENCE

BatchOf(i) == aggregateNodes[i + 1].BatchIdx

\* the tasks whose body has started
Started == exec.done \cup {threads[t].task : t \in {u \in Threads : threads[u].pc = "body"}}

\* the step of an AddInput or AddOutput call; the call's arguments are
\* client'.lastOp[2] = <<handle, path, kind, expected state>>
AddInputStep == client'.lastOp[1] = "AddInput" /\ client'.ndeps = client.ndeps + 1
AddOutputStep == client'.lastOp[1] = "AddOutput" /\ client'.ndeps = client.ndeps + 1

\* C18: AddOutput on an async-compute node with an expected state that
\* intersects INVALID_COMPUTE_STATES ends in an error; the node's outputs and
\* the resource's producer list are as they were before the call.
C18_ComputeOutputRejected ==
    [][(/\ AddOutputStep
        /\ renderNodes[client'.lastOp[2][1]].Type = ASYNC_COMPUTE
        /\ client'.lastOp[2][4] \cap INVALID_COMPUTE_STATES # {})
       => /\ failed' # "none"
          /\ renderNodes' = renderNodes
          /\ frameResources' = frameResources]_vars

\* the call was made with a write state, on a compute node, and was rejected
C18_Witness ==
    /\ failed = "state transition is not supported on an async-compute command list."
    /\ client.lastOp[1] = "AddOutput"
    /\ renderNodes[client.lastOp[2][1]].Type = ASYNC_COMPUTE
    /\ renderNodes[client.lastOp[2][1]].Outputs = <<>>

\* C19: AddInput accepts an expected state only if all its bits are in
\* READ_STATES, AddOutput only if all its bits are in WRITE_STATES.
C19_StateMasks ==
    [][/\ (AddInputStep /\ failed' = "none") => client'.lastOp[2][4] \subseteq READ_STATES
       /\ (AddOutputStep /\ failed' = "none") => client'.lastOp[2][4] \subseteq WRITE_STATES
      ]_vars

\* the declared dependencies between different nodes: p writes a resource
\* that c reads
DeclaredEdges ==
    {e \in (0 .. (currRenderPassIdx - 1)) \X (0 .. (currRenderPassIdx - 1)) :
        /\ e[1] # e[2]
        /\ \E i \in 1 .. Len(renderNodes[e[2]].Inputs),
              o \in 1 .. Len(renderNodes[e[1]].Outputs) :
               renderNodes[e[2]].Inputs[i].ResID = renderNodes[e[1]].Outputs[o].ResID}

\* a node reaches itself over declared dependencies (paths of up to 8 steps)
HasCycle ==
    LET R == DeclaredEdges
        T == {<<a, c>> \in (0 .. (currRenderPassIdx - 1)) \X (0 .. (currRenderPassIdx - 1)) :
                 \/ <<a, c>> \in R
                 \/ \E b \in 0 .. (currRenderPassIdx - 1) : <<a, b>> \in R /\ <<b, c>> \in R}
        U == {<<a, c>> \in (0 .. (currRenderPassIdx - 1)) \X (0 .. (currRenderPassIdx - 1)) :
                 \/ <<a, c>> \in T
                 \/ \E b \in 0 .. (currRenderPassIdx - 1) : <<a, b>> \in T /\ <<b, c>> \in T}
        V == {<<a, c>> \in (0 .. (currRenderPassIdx - 1)) \X (0 .. (currRenderPassIdx - 1)) :
                 \/ <<a, c>> \in U
                 \/ \E b \in 0 .. (currRenderPassIdx - 1) : <<a, b>> \in U /\ <<b, c>> \in U}
    IN  \E n \in 0 .. (currRenderPassIdx - 1) : <<n, n>> \in V

SortErrors ==
    {"Graph is not a DAG- no node with 0 dependencies.", "invalid handle", "Graph is not a DAG"}

\* C20: a Build of declarations with a cycle between two or more nodes ends
\* in one of the sort's errors, with no barrier inserted, no tracked state
\* changed and no aggregate made.
C20_CycleIsFatal ==
    [][(inBeginEndBlock /\ ~inBeginEndBlock' /\ HasCycle) =>
          /\ failed' \in SortErrors
          /\ \A n \in NodeIdx : renderNodes'[n].Barriers = <<>>
          /\ frameResources' = frameResources
          /\ aggregateNodes' = <<>>]_vars

\* a build of a cycle of two nodes has ended in an error of the sort
C20_Witness ==
    /\ client.lastOp[1] = "Build"
    /\ failed \in SortErrors
    /\ HasCycle

\* C21: a registered frame-submission wait object is notified at most once,
\* by the task of the IsLast aggregate and after that aggregate's command
\* list was submitted; the registration is then cleared; and once the task of
\* the IsLast aggregate has finished, a wait object registered for the frame
\* has been notified exactly once.
C21_SubmissionWaitObj ==
    /\ Len(exec.notified) <= 1
    /\ \A k \in 1 .. Len(exec.notified) :
          /\ aggregateNodes[exec.notified[k].agg + 1].IsLast
          /\ Submission(exec.notified[k].agg, "list") \in exec.notified[k].after
          /\ ~submissionWaitObj
    /\ (exec.registered /\ (Len(aggregateNodes) - 1) \in exec.done) =>
          Len(exec.notified) = 1

\* C17: once Shutdown has been called, the program having not failed, every
\* pool thread eventually leaves its loop and Shutdown's joins return.
C17_ShutdownTerminates ==
    (threads[Caller].pc # "away") ~>
        \/ failed # "none"
        \/ /\ threads[Caller].pc = "joined"
           /\ \A t \in Workers : threads[t].pc = "exited"

\* the step of a Build that ends without a failure
BuildStep == inBeginEndBlock /\ ~inBeginEndBlock' /\ failed' = "none"

\* the entry of the resource table, before the build, registered under path
EntryOf(path) == CHOOSE f \in DOMAIN frameResources : frameResources[f].ID = path

\* the barrier rule for one dependency: acc.state is the tracked state per
\* path, acc.bars the barriers of the node so far
RuleDep(acc, dep, isOutput) ==
    LET S == acc.state[dep.ResID]
        E == dep.ExpectedState
    IN  IF dep.ResID < DUMMY_RES_COUNT THEN acc
        ELSE IF S \cap E = {}
        THEN [state |-> [acc.state EXCEPT ![dep.ResID] = E],
              bars |-> Append(acc.bars,
                              TransitionBarrier(frameResources[EntryOf(dep.ResID)].Res, S, E))]
        ELSE IF isOutput THEN [acc EXCEPT !.state[dep.ResID] = E]
        ELSE acc

\* the rule over the inputs, then the outputs, of one node
RuleNode(state, node) ==
    FoldLeft(LAMBDA a, dep : RuleDep(a, dep, TRUE),
             FoldLeft(LAMBDA a, dep : RuleDep(a, dep, FALSE),
                      [state |-> state, bars |-> <<>>], node.Inputs),
             node.Outputs)

\* the rule over the nodes 0 .. n of the sorted list nodes, from the
\* tracked states before the build
RuleUpTo[n \in -1 .. MAX_NUM_RENDER_PASSES - 1] ==
    IF n = -1
    THEN [state |-> [path \in DepPaths |->
                        IF \E f \in DOMAIN frameResources : frameResources[f].ID = path
                        THEN frameResources[EntryOf(path)].State ELSE COMMON],
          bars |-> <<>>]
    ELSE RuleNode(RuleUpTo[n - 1].state, renderNodes'[n])

ListFences(i) ==
    {k \in 1 .. Len(exec.submissions) : exec.submissions[k] = Submission(i, "list")}

\* the positions e of the ends of the runs that hold position k
RunEnds(k) == {e \in AggPos : \E s \in AggPos : IsRun(s, e) /\ s <= k /\ k <= e}

\* C15: once the task of a run's merge_end has submitted, the completion
\* fence of every aggregate of the run is that submission's fence; the
\* completion fence of an aggregate outside every run is never the fence of
\* another aggregate's submission: it is the fence of its own submission, or
\* unset.
C15_MergeFence ==
    \A k \in AggPos :
        /\ \A e \in RunEnds(k) :
              (e - 1) \in exec.done =>
                  /\ Cardinality(ListFences(e - 1)) = 1
                  /\ aggregateNodes[k].CompletionFence \in ListFences(e - 1)
        /\ RunEnds(k) = {} =>
              \/ aggregateNodes[k].CompletionFence = UNSET_FENCE
              \/ /\ (k - 1) \in exec.done
                 /\ aggregateNodes[k].CompletionFence \in ListFences(k - 1)

\* the task of the merge_end of a run of three aggregates has submitted,
\* and so has an aggregate outside the run
C15_Witness ==
    \E s \in AggPos, e \in AggPos, k \in AggPos :
        /\ IsRun(s, e) /\ e >= s + 2
        /\ (e - 1) \in exec.done
        /\ RunEnds(k) = {} /\ k < s
        /\ aggregateNodes[k].CompletionFence \in ListFences(k - 1)

\* the (0-based) positions of node n's outputs naming resource path
OutputsNaming(n, path) ==
    {k - 1 : k \in {m \in 1 .. Len(renderNodes[n].Outputs) :
                       renderNodes[n].Outputs[m].ResID = path}}

InputsNaming(n, path) ==
    {k \in 1 .. Len(renderNodes[n].Inputs) : renderNodes[n].Inputs[k].ResID = path}

\* the positions of node n's barriers on the resource registered under path
BarriersOn(n, path) ==
    {k \in 1 .. Len(renderNodes[n].Barriers) :
        \E f \in DOMAIN frameResources :
            /\ frameResources[f].ID = path
            /\ renderNodes[n].Barriers[k].Res = frameResources[f].Res}

PingPongs(n, path) ==
    /\ path >= DUMMY_RES_COUNT
    /\ InputsNaming(n, path) # {}
    /\ OutputsNaming(n, path) # {}

\* C14: in a built graph, a node naming one resource R both as an input and
\* as an output has exactly one output-mask bit, the bit of its output naming
\* R, and exactly one barrier for R, the transition into the input state.
C14_PingPong ==
    Built =>
        \A n \in SortedIdx : \A path \in DepPaths :
            (PingPongs(n, path) /\ \A q \in DepPaths \ {path} : ~PingPongs(n, q)) =>
                /\ renderNodes[n].OutputMask = OutputsNaming(n, path)
                /\ Cardinality(renderNodes[n].OutputMask) = 1
                /\ Cardinality(BarriersOn(n, path)) = 1
                /\ \A k \in BarriersOn(n, path) : \E m \in InputsNaming(n, path) :
                       renderNodes[n].Barriers[k].StateAfter =
                           renderNodes[n].Inputs[m].ExpectedState

InvalidOnCompute(bar) == bar.StateBefore \cap INVALID_COMPUTE_STATES # {}

\* the positions of exec.submissions at which aggregate i's barrier list was
\* submitted
BarrierSubmissions(i) ==
    {k \in 1 .. Len(exec.submissions) : exec.submissions[k] = Submission(i, "barriers")}

\* C13: an async-compute node with a barrier out of a state that is illegal
\* on compute has HasUnsupportedBarrier set; when the aggregate of such a
\* node has executed, all its barriers were recorded on a separate graphics
\* list and none on its own list, that list was submitted, and the compute
\* queue was made to wait on that submission's fence before any callback of
\* the aggregate.
C13_UnsupportedBarrier ==
    /\ Built =>
          \A n \in SortedIdx :
              (/\ renderNodes[n].Type = ASYNC_COMPUTE
               /\ \E k \in 1 .. Len(renderNodes[n].Barriers) :
                      InvalidOnCompute(renderNodes[n].Barriers[k]))
              => /\ renderNodes[n].HasUnsupportedBarrier
                 /\ aggregateNodes[renderNodes[n].AggNodeIdx + 1].HasUnsupportedBarrier
    /\ \A i \in exec.done :
          aggregateNodes[i + 1].HasUnsupportedBarrier =>
             /\ \A r \in exec.recorded : r.agg = i => r.list = "barrier"
             /\ Recorded(i, "barrier", aggregateNodes[i + 1].Barriers) \subseteq exec.recorded
             /\ Cardinality(BarrierSubmissions(i)) = 1
             /\ \A k \in BarrierSubmissions(i) : BarrierWait(i, k, 0) \in exec.waits

\* an aggregate of two compute passes, one of them with a barrier out of an
\* illegal state and one with a legal barrier, has executed
C13_Witness ==
    \E i \in exec.done :
        /\ aggregateNodes[i + 1].HasUnsupportedBarrier
        /\ Len(aggregateNodes[i + 1].Dlgs) = 2
        /\ \E k \in 1 .. Len(aggregateNodes[i + 1].Barriers) :
              ~InvalidOnCompute(aggregateNodes[i + 1].Barriers[k])

\* C4: the body of a task of batch b + 1 does not start until every task of
\* batch b has completed.
C4_BatchOrder ==
    \A j \in Started :
        \A i \in 0 .. (Len(aggregateNodes) - 1) :
            BatchOf(i) + 1 = BatchOf(j) => i \in exec.done

\* a worker and the pumping thread are both in the bodies of tasks of one
\* batch after the first
C4_Witness ==
    /\ threads[Main].pc = "body"
    /\ BatchOf(threads[Main].task) >= 1
    /\ \E t \in Workers :
          /\ threads[t].pc = "body"
          /\ BatchOf(threads[t].task) = BatchOf(threads[Main].task)

Counters == <<numTasksFinished, numTasksToFinishTarget>>

\* the main thread's step out of TryFlush's comparison
ComparedStep == threads[Main].pc = "compare" /\ threads'[Main].pc # "compare"

\* the main thread's step from PumpUntilEmpty back to TryFlush's caller
ReturnedFalseStep == threads[Main].pc = "pump" /\ threads'[Main].pc = "flush"

\* C8: TryFlush returns true exactly when the finished count it read equals
\* the target; returning true it has reset both counters to zero; otherwise
\* it goes through PumpUntilEmpty, returns false and leaves the counters
\* unreset.
C8_TryFlush ==
    [][/\ ComparedStep =>
            IF threads[Main].loaded = numTasksToFinishTarget
            THEN /\ numTasksFinished = numTasksToFinishTarget
                 /\ exec'.flush = "true" /\ threads'[Main].pc = "flushed"
                 /\ numTasksFinished' = 0 /\ numTasksToFinishTarget' = 0
            ELSE /\ threads'[Main].pc = "pump"
                 /\ exec'.flush = exec.flush
                 /\ UNCHANGED Counters
       /\ ReturnedFalseStep =>
            /\ exec'.flush = "false"
            /\ UNCHANGED Counters
       /\ (exec'.flush # exec.flush) => (ComparedStep \/ ReturnedFalseStep)
       /\ (numTasksFinished' < numTasksFinished
              \/ numTasksToFinishTarget' < numTasksToFinishTarget)
            => (ComparedStep /\ exec'.flush = "true")]_vars

\* TryFlush has returned true after having returned false
C8_Witness == exec.flush = "true" /\ exec.pumped

\* the entries of the live range, before the step, registered under the
\* current back buffer's id
BackBufferEntries ==
    {f \in 0 .. (lastResIdx - 1) : frameResources[f].ID = BackBufferID}

\* C22: a build that ends without a failure, in a frame in which the current
\* back buffer is a registered resource, leaves the tracked state of the back
\* buffer PRESENT, whatever state it was registered with and whatever states
\* the passes declared for it.
C22_BackBufferPresent ==
    [][(BuildStep /\ BackBufferEntries # {}) =>
           \A f \in 0 .. (lastResIdx - 1) :
               (frameResources'[f].ID = BackBufferID) =>
                   frameResources'[f].State = PRESENT]_vars

\* a build has ended in a frame whose pass declared the back buffer as an
\* UNORDERED_ACCESS output; its tracked state, RENDER_TARGET before, is PRESENT
C22_Witness ==
    /\ client.lastOp[1] = "Build" /\ failed = "none"
    /\ \E f \in 0 .. (lastResIdx - 1) :
          /\ frameResources[f].ID = BackBufferID
          /\ frameResources[f].State = PRESENT
          /\ client.before[f].State = RENDER_TARGET
    /\ \E n \in 0 .. (currRenderPassIdx - 1) :
          \E o \in 1 .. Len(renderNodes[n].Outputs) :
              /\ renderNodes[n].Outputs[o].ResID = BackBufferID
              /\ renderNodes[n].Outputs[o].ExpectedState = UNORDERED_ACCESS

\* the aggregate at position k is one the merging pass counts into a run:
\* graphics, not force-separate, a single callback
SmallAgg(k) ==
    /\ ~aggregateNodes[k].IsAsyncCompute /\ ~aggregateNodes[k].ForceSeparate
    /\ Len(aggregateNodes[k].Dlgs) = 1

\* position k lies in a run of at least two consecutive small aggregates
InMergedRun(k) ==
    /\ SmallAgg(k)
    /\ \/ k > 1 /\ SmallAgg(k - 1)
       \/ k < Len(aggregateNodes) /\ SmallAgg(k + 1)

\* C23: after merging, every aggregate that is not part of a run of at least
\* two small aggregates (an async-compute, force-separate or multi-callback
\* aggregate, or a small aggregate whose run has length 1) has merge_start
\* and merge_end false and merged command-list index -1, also when an earlier
\* run of the frame was merged.
C23_UnmergedCleared ==
    Built =>
        \A k \in AggPos :
            ~InMergedRun(k) =>
                /\ ~aggregateNodes[k].MergeStart
                /\ ~aggregateNodes[k].MergeEnd
                /\ aggregateNodes[k].MergedCmdListIdx = -1

\* every task of the frame's task set has returned
FrameDone == Built /\ exec.done = {k - 1 : k \in AggPos}

\* C24: a non-start member of a chain always finds the chain's shared command
\* list published and not yet cleared, and when the frame's task graph has
\* run to completion every aggregate outside a chain has submitted its own
\* command list exactly once, every chain has submitted its shared list
\* exactly once, from the task of its merge_end, and every aggregate has a
\* completion fence.
C24_SubmittedOnce ==
    /\ failed # "Merged command list should've been initialized at this point."
    /\ FrameDone =>
          \A k \in AggPos :
              /\ Cardinality(ListFences(k - 1)) =
                     (IF RunEnds(k) = {} \/ k \in RunEnds(k) THEN 1 ELSE 0)
              /\ aggregateNodes[k].CompletionFence # UNSET_FENCE

\* node n names the resource under path and no node after it in execution
\* order does
LastNaming(n, path) ==
    /\ InputsNaming(n, path) # {} \/ OutputsNaming(n, path) # {}
    /\ \A m \in SortedIdx :
          m > n => (InputsNaming(m, path) = {} /\ OutputsNaming(m, path) = {})

\* C25: for an output whose output-mask bit is set (the node also reads the
\* resource), barrier insertion emits no barrier and leaves the tracked state
\* as the node's input left it: the node's barriers on the resource all lead
\* to the input's expected state, and when no later node names the resource
\* its tracked state after the build is still that input state.
C25_MaskedOutputKeepsState ==
    Built =>
        \A n \in SortedIdx : \A path \in DepPaths \ {BackBufferID} :
            (/\ PingPongs(n, path)
             /\ OutputsNaming(n, path) \subseteq renderNodes[n].OutputMask
             /\ \A o \in 1 .. Len(renderNodes[n].Outputs) :
                    renderNodes[n].Outputs[o].ResID >= DUMMY_RES_COUNT)
            => LET inputStates == {renderNodes[n].Inputs[m].ExpectedState :
                                      m \in InputsNaming(n, path)}
               IN  /\ \A k \in BarriersOn(n, path) :
                          renderNodes[n].Barriers[k].StateAfter \in inputStates
                   /\ LastNaming(n, path) =>
                          \A f \in 0 .. (lastResIdx - 1) :
                              frameResources[f].ID = path =>
                                  frameResources[f].State \in inputStates

\* the aggregates whose tasks a thread is executing: the thread has passed
\* the wait on the task's inbound signals and has not returned from DoTask
Executing ==
    {threads[t].task : t \in {u \in Threads : threads[u].pc = "body"}}
        \ {NoOp, PlainTask, NoTask}

\* C26: the task of a force-separate aggregate never executes concurrently
\* with the task of another aggregate of the same batch, whether that
\* aggregate comes before or after it in the aggregate list.
C26_ForceSeparateIsolated ==
    \A i \in Executing, j \in Executing :
        (/\ i # j
         /\ aggregateNodes[i + 1].BatchIdx = aggregateNodes[j + 1].BatchIdx)
        => ~aggregateNodes[i + 1].ForceSeparate

\* the sorted indices of the nodes that node n depends on directly
ProducersOf(n) == {p \in SortedIdx : p # n /\ Consumes(n, p)}

SetMax(S) == CHOOSE x \in S : \A y \in S : y <= x

\* the length of the longest dependency path ending at node n, followed for
\* at most fuel edges
RECURSIVE PathDepth(_, _)
PathDepth(n, fuel) ==
    IF ProducersOf(n) = {} \/ fuel = 0 THEN 0
    ELSE 1 + SetMax({PathDepth(p, fuel - 1) : p \in ProducersOf(n)})

\* the nodes from which a dependency path of at most fuel edges leads to n
RECURSIVE Ancestors(_, _)
Ancestors(n, fuel) ==
    IF fuel = 0 THEN {}
    ELSE ProducersOf(n) \cup UNION {Ancestors(p, fuel - 1) : p \in ProducersOf(n)}

\* C27: after Build the batch index of every node is the length of the
\* longest dependency path ending at it: a node without producers has batch
\* 0, a consumer's batch is at least its producer's plus one, every batch
\* index from 0 to the largest is used, and no two nodes of one batch are
\* connected by a dependency path.
C27_BatchIsLongestPath ==
    Built =>
        /\ \A n \in SortedIdx :
              /\ renderNodes[n].NodeBatchIdx = PathDepth(n, currRenderPassIdx)
              /\ ProducersOf(n) = {} => renderNodes[n].NodeBatchIdx = 0
              /\ \A p \in ProducersOf(n) :
                     renderNodes[n].NodeBatchIdx >= renderNodes[p].NodeBatchIdx + 1
              /\ \A a \in Ancestors(n, currRenderPassIdx) :
                     renderNodes[a].NodeBatchIdx # renderNodes[n].NodeBatchIdx
        /\ \A b \in 0 .. SetMax({renderNodes[n].NodeBatchIdx : n \in SortedIdx}) :
              \E n \in SortedIdx : renderNodes[n].NodeBatchIdx = b

\* a built graph in which dependency paths of different lengths end at one
\* node: it has a producer two batches before it
C27_Witness ==
    /\ Built
    /\ \E n \in SortedIdx : \E p \in ProducersOf(n) :
          renderNodes[n].NodeBatchIdx >= renderNodes[p].NodeBatchIdx + 2

\* the threads that hold a task of priority BACKGROUND
HoldsBackground(t) ==
    threads[t].task # NoTask /\ GetPriority(threads[t].task) = BACKGROUND

\* C28: a task of priority BACKGROUND is never made to wait on inbound
\* dependency signals, and the thread that has executed it signals no
\* outbound task, whether the thread is a worker or the thread inside
\* PumpUntilEmpty.
C28_BackgroundOutsideSignals ==
    /\ [](\A t \in Threads :
             (HoldsBackground(t) /\ threads[t].pc = "wait") =>
                 signals[GetSignalHandle(threads[t].task)] = 0)
    /\ [][\A t \in Threads :
             (HoldsBackground(t) /\ threads[t].pc = "signal" /\ threads'[t].pc # "signal")
                 => signals' = signals]_vars

\* C29: when MoveToPostRegister has returned, whatever registrations and
\* removals came before it in this and earlier frames, the entries of the
\* live range [0, m_lastResIdx) are sorted by id and pairwise distinct (the
\* duplicate check has not fired), and the binary search finds every one of
\* them by its id.
C29_SortedAndDistinct ==
    client.lastOp[1] = "MoveToPostRegister" =>
        /\ failed # "Duplicate entries for resource"
        /\ IsSortedById(frameResources, lastResIdx)
        /\ \A i \in 0 .. (lastResIdx - 1) :
               FindFrameResourceAll(frameResources, lastResIdx, frameResources[i].ID) = i

\* the positions of the aggregates that hold the callback of node n
AggregatesOf(n) ==
    {k \in AggPos : \E d \in 1 .. Len(aggregateNodes[k].Dlgs) :
                        aggregateNodes[k].Dlgs[d] = renderNodes[n].Dlg}

\* C30: after aggregation every render node belongs to exactly one
\* aggregate, the one its AggNodeIdx names; the members of an aggregate share
\* its batch index and queue type; a force-separate node is the only member
\* of its aggregate; the aggregate list is non-decreasing in batch index; and
\* within a batch the aggregate of the async-compute bucket comes before the
\* aggregate of the graphics bucket.
C30_Aggregation ==
    Built =>
        /\ \A n \in SortedIdx :
              LET k == renderNodes[n].AggNodeIdx + 1
              IN  /\ AggregatesOf(n) = {k}
                  /\ Cardinality({d \in 1 .. Len(aggregateNodes[k].Dlgs) :
                                     aggregateNodes[k].Dlgs[d] = renderNodes[n].Dlg}) = 1
                  /\ aggregateNodes[k].BatchIdx = renderNodes[n].NodeBatchIdx
                  /\ aggregateNodes[k].IsAsyncCompute = (renderNodes[n].Type = ASYNC_COMPUTE)
                  /\ aggregateNodes[k].ForceSeparate = renderNodes[n].ForceSeparateCmdList
                  /\ renderNodes[n].ForceSeparateCmdList => Len(aggregateNodes[k].Dlgs) = 1
        /\ \A k \in AggPos :
              Len(aggregateNodes[k].Dlgs) =
                  Cardinality({n \in SortedIdx : renderNodes[n].AggNodeIdx + 1 = k})
        /\ \A j \in AggPos, k \in AggPos :
              j < k => aggregateNodes[j].BatchIdx <= aggregateNodes[k].BatchIdx
        /\ \A a \in AggPos, g \in AggPos :
              (/\ aggregateNodes[a].BatchIdx = aggregateNodes[g].BatchIdx
               /\ ~aggregateNodes[a].ForceSeparate /\ ~aggregateNodes[g].ForceSeparate
               /\ aggregateNodes[a].IsAsyncCompute /\ ~aggregateNodes[g].IsAsyncCompute)
              => a < g

\* a built graph with a batch that holds an async-compute bucket and a
\* graphics bucket, one of them with two passes
C30_Witness ==
    /\ Built
    /\ \E a \in AggPos, g \in AggPos :
          /\ aggregateNodes[a].BatchIdx = aggregateNodes[g].BatchIdx
          /\ ~aggregateNodes[a].ForceSeparate /\ ~aggregateNodes[g].ForceSeparate
          /\ aggregateNodes[a].IsAsyncCompute /\ ~aggregateNodes[g].IsAsyncCompute
          /\ Len(aggregateNodes[a].Dlgs) + Len(aggregateNodes[g].Dlgs) >= 3

\* the number of adjacency entries that point at node n
EdgeCount(adj, n, numNodes) ==
    FoldRange(LAMBDA acc, p :
                acc + Cardinality({k \in 1 .. Len(adj[p]) : adj[p][k] = n}),
              0, 0, numNodes - 1)

\* the step of a Build call on a graph with at least one pass
BuildCall == inBeginEndBlock /\ ~inBeginEndBlock' /\ currRenderPassIdx > 0

\* the dependencies <<handle, kind, position>> of the declared passes that
\* name the resource under path (kind 0 an input, 1 an output)
Namings(path) ==
    UNION {{<<h, 0, i>> : i \in {j \in DOMAIN renderNodes[h].Inputs :
                                    renderNodes[h].Inputs[j].ResID = path}}
           \cup {<<h, 1, o>> : o \in {j \in DOMAIN renderNodes[h].Outputs :
                                       renderNodes[h].Outputs[j].ResID = path}}
           : h \in 0 .. (currRenderPassIdx - 1)}

\* the inputs <<handle, position>> on a real resource that no pass of the
\* frame produces and no other dependency of the frame names
LoneInputs ==
    {d \in UNION {{<<h, i>> : i \in DOMAIN renderNodes[h].Inputs}
                  : h \in 0 .. (currRenderPassIdx - 1)} :
        LET path == renderNodes[d[1]].Inputs[d[2]].ResID
        IN  /\ path >= DUMMY_RES_COUNT
            /\ \E f \in 0 .. (lastResIdx - 1) : frameResources[f].ID = path
            /\ \A f \in 0 .. (lastResIdx - 1) :
                   frameResources[f].ID = path => frameResources[f].Producers = <<>>
            /\ Cardinality(Namings(path)) = 1}

\* the in-degree half of the claim: after edge construction the in-degree of
\* every node is the number of adjacency entries pointing at it, is never
\* negative, an edge comes only from a producer of one of the node's inputs,
\* and the sort that follows keeps every node exactly once
IndegreeIsEdgeCount ==
    BuildCall =>
        LET e == AddGraphEdges(renderNodes, currRenderPassIdx, frameResources, lastResIdx)
        IN  /\ failed' # "Invalid indegree for node."
            /\ Ok(e) =>
                  \A n \in 0 .. (currRenderPassIdx - 1) :
                      /\ e.nodes[n].Indegree = EdgeCount(e.adj, n, currRenderPassIdx)
                      /\ e.nodes[n].Indegree >= 0
                      /\ \A p \in 0 .. (currRenderPassIdx - 1) :
                            n \in Range(e.adj[p]) =>
                                /\ p # n
                                /\ \E i \in 1 .. Len(renderNodes[n].Inputs) :
                                      \E f \in 0 .. (lastResIdx - 1) :
                                          /\ frameResources[f].ID = renderNodes[n].Inputs[i].ResID
                                          /\ p \in Range(frameResources[f].Producers)
            /\ failed' = "none" =>
                  \A n \in 0 .. (currRenderPassIdx - 1) :
                      Cardinality({i \in 0 .. (currRenderPassIdx - 1) :
                                      renderNodes'[i].Dlg = renderNodes[n].Dlg}) = 1

\* the barriers that the built node of handle h carries for native resource res
BuiltBarriersOn(h, res) ==
    {k \in 1 .. Len(renderNodes'[mapping'[h]].Barriers) :
        renderNodes'[mapping'[h]].Barriers[k].Res = res}

CrossQueueProducers(n) ==
    {p \in ProducersOf(n) :
        (renderNodes[p].Type = ASYNC_COMPUTE) # (renderNodes[n].Type = ASYNC_COMPUTE)}

\* C32: for every node N and every producer P of one of N's inputs that runs
\* on the other queue, whatever P's sorted index, N or a node before it in
\* execution order on N's queue has a GPU dependency source of at least P's
\* sorted index: no cross-queue dependency is left without a covering fence.
C32_CrossQueueCovered ==
    Built =>
        \A n \in SortedIdx : \A p \in CrossQueueProducers(n) :
            \E m \in SortedIdx :
                /\ m <= n
                /\ renderNodes[m].Type = renderNodes[n].Type
                /\ renderNodes[m].GpuDepSourceIdx >= p

\* the task graph orders the task of aggregate a before the task of
\* aggregate b: a path of edges leads from a to b (edges go to later
\* aggregates only)
RECURSIVE TaskPath(_, _)
TaskPath(a, b) ==
    \/ <<a, b>> \in taskEdges
    \/ \E c \in (a + 1) .. (b - 1) : <<a, c>> \in taskEdges /\ TaskPath(c, b)

\* node n has producers on the other queue and no fence of its own, and
\* node m, before it in execution order on its queue, has a fence that
\* covers them
CoveredBy(n, m) ==
    /\ CrossQueueProducers(n) # {}
    /\ renderNodes[n].GpuDepSourceIdx = -1
    /\ m < n
    /\ renderNodes[m].Type = renderNodes[n].Type
    /\ renderNodes[m].GpuDepSourceIdx >= SetMax(CrossQueueProducers(n))

\* C33: when a node N is left without a fence of its own because an earlier
\* node of its queue already synced with an index at least N's producer,
\* some such node M shares N's aggregate or has its aggregate's task ordered
\* before the task of N's aggregate by the task graph, also when M or N is a
\* force-separate pass of the same batch.
C33_CoveringFenceFirst ==
    Built =>
        \A n \in SortedIdx :
            (\E m \in SortedIdx : CoveredBy(n, m)) =>
                \E m \in SortedIdx :
                    /\ CoveredBy(n, m)
                    /\ \/ renderNodes[m].AggNodeIdx = renderNodes[n].AggNodeIdx
                       \/ TaskPath(renderNodes[m].AggNodeIdx, renderNodes[n].AggNodeIdx)

(***************************************************************************)
(* Aggregation of the final batch                                          *)
(***************************************************************************)
\* what Build hands to JoinRenderNodes: the nodes sorted and with barriers
Joinable ==
    BarrierPass(SortPass(WithEdges(AddGraphEdges(renderNodes, currRenderPassIdx,
                                                 frameResources, lastResIdx),
                                   frameResources, mapping),
                         currRenderPassIdx),
                currRenderPassIdx, lastResIdx)

Joined == JoinRenderNodes(Joinable.nodes, currRenderPassIdx)

\* C34: for every acyclic graph with at least one pass, JoinRenderNodes
\* runs to its end without failing an assertion (the non-empty-bucket
\* assertion of insertAggRndrNode included) and leaves at least one
\* aggregate, the last of which, and only the last, has IsLast set; also
\* when the final batch holds nothing but force-separate passes.
C34_AggregationCompletes ==
    [][(BuildCall /\ Ok(Joinable)) =>
          /\ Ok(Joined)
          /\ Joined.aggs # <<>>
          /\ \A k \in 1 .. Len(Joined.aggs) :
                Joined.aggs[k].IsLast <=> (k = Len(Joined.aggs))]_vars

(***************************************************************************)
(* The frame-submission wait object and the other aggregates               *)
(***************************************************************************)
\* the aggregate whose task submits the command list of position k: the
\* merge_end of its chain, or the aggregate itself
SubmitterOf(k) == IF RunEnds(k) = {} THEN k ELSE CHOOSE e \in RunEnds(k) : TRUE

\* C35: when the frame-submission wait object is signalled, every aggregate
\* of the frame, and not only the IsLast one, has had its command list
\* submitted, whichever way the tasks of the final batch interleave.
C35_AllSubmittedAtSignal ==
    \A k \in 1 .. Len(exec.notified) :
        \A p \in AggPos :
            Submission(SubmitterOf(p) - 1, "list") \in exec.notified[k].after

(***************************************************************************)
(* The counters of the pool under concurrent Enqueue (SpecEnqueue)         *)
(***************************************************************************)
\* a thread has dequeued the task and has not yet counted it as finished
HeldBy(t, task) ==
    threads[t].task = task /\ threads[t].pc \in {"wait", "body", "signal"}

\* the task was dequeued, run and counted in m_numTasksFinished
HasFinished(task) ==
    /\ task \in client.pushed
    /\ task \notin Range(taskQueue)
    /\ \A t \in Threads : ~HeldBy(t, task)

\* no thread is inside a call of the pool and every task handed to it has
\* finished
Quiet ==
    /\ \A p \in Producers : threads[p].pc = Home(p)
    /\ client.issued > 0
    /\ \A k \in 0 .. (client.issued - 1) : HasFinished(SetTask(k))

FinishedWithinTarget == numTasksFinished <= numTasksToFinishTarget

\* TryFlush returns true
FlushReturnsTrue == threads[Main].pc = "store2" /\ threads'[Main].pc = "client"

FlushedTasksFinished ==
    FlushReturnsTrue => \A task \in client.seen : HasFinished(task)

\* C36: with Enqueue running beside TryFlush and the workers, the finished
\* counter never exceeds the outstanding target; a TryFlush that returns
\* true does so only when every task whose Enqueue had returned before the
\* TryFlush was entered has finished; and once every task handed to the pool
\* has run and no call is in progress the two counters are equal, so that
\* the next TryFlush returns true.
C36_FlushCounters ==
    /\ []FinishedWithinTarget
    /\ [][FlushedTasksFinished]_vars
    /\ [](Quiet => FlushSuccess(numTasksFinished, numTasksToFinishTarget))

\* a task whose Enqueue call has returned is still in the queue
ReturnedTaskQueued == \E task \in client.returned : task \in Range(taskQueue)

\* PumpUntilEmpty leaves its loop
PumpReturns == threads[Main].pc = "pump" /\ threads'[Main].pc = "flush"

\* C37: under every interleaving of Enqueue(Task), Enqueue(TaskSet), the
\* workers' dequeue and the pump's dequeue, m_numTasksInQueue is never
\* negative and never zero while a task whose Enqueue call has returned is
\* still in the queue; hence PumpUntilEmpty does not return while such a
\* task is in the queue.
C37_QueueCounter ==
    /\ [](numTasksInQueue >= 0)
    /\ [](ReturnedTaskQueued => numTasksInQueue # 0)
    /\ [][PumpReturns => ~ReturnedTaskQueued]_vars

(***************************************************************************)
(* The output mask: the bit Build sets and the bit the barriers test       *)
(***************************************************************************)
\* positions (from 1) of the outputs of the node at sorted index n that name
\* a resource that is not a dummy
RealOutputs(n) ==
    {k \in DOMAIN renderNodes[n].Outputs :
        renderNodes[n].Outputs[k].ResID >= DUMMY_RES_COUNT}

\* the bit "node.OutputMask |= (1 << i)" uses for the output at position k
BitSetFor(k) == k - 1

\* the value of i in "(1 << i++) & node.OutputMask" when the loop over the
\* outputs is at position k: the real outputs before it
BitTestedFor(n, k) == Cardinality({m \in RealOutputs(n) : m < k})

\* C39: for every output of every node, the mask bit that barrier insertion
\* tests for the output is the bit edge construction uses for that output
\* position, so that the test finds the bit set exactly when Build set it
\* for this output; also when outputs naming dummy resources come before
\* the output that is also an input.
C39_MaskBitSameOutput ==
    Built =>
        \A n \in SortedIdx : \A k \in RealOutputs(n) :
            (BitTestedFor(n, k) \in renderNodes[n].OutputMask) <=>
                (BitSetFor(k) \in renderNodes[n].OutputMask)

(***************************************************************************)
(* The backward scan of a merge_end task (lines 524-529)                   *)
(***************************************************************************)
\* the indices curr at which the loop condition reads
\* m_aggregateNodes[curr].MergedCmdListIdx: the members of the chain before
\* aggregate i, and the index below the lowest of them, where the loop stops
ScanReads(aggs, i) ==
    LET chain == ChainBefore(aggs, i)
    IN  chain \cup {IF chain = {} THEN i - 1
                    ELSE (CHOOSE k \in chain : \A m \in chain : k <= m) - 1}

\* thread t runs the task of a merge_end aggregate to its end
MergeEndTaskRuns(t) ==
    /\ threads[t].pc = "body" /\ threads'[t].pc = "signal"
    /\ threads[t].task >= 0
    /\ aggregateNodes[threads[t].task + 1].MergeEnd

\* C40: the backward fence scan of a merge_end task at aggregate i reads only
\* indices in [0, i), and never an index below 0, also when the chain starts
\* at aggregate 0; it never writes a fence in front of the first aggregate.
C40_FenceScanInBounds ==
    /\ [](failed # "write before the first element of m_aggregateNodes")
    /\ [][\A t \in Threads :
             MergeEndTaskRuns(t) =>
                 ScanReads(aggregateNodes, threads[t].task) \subseteq
                     0 .. (threads[t].task - 1)]_vars

(***************************************************************************)
(* Completion of the frame's task set (checked under SpecFair)             *)
(***************************************************************************)
\* the task set Build emitted has been handed to Enqueue(TaskSet&&)
Enqueued == client.lastOp[1] = "Enqueue"

\* the task of every aggregate has run to its end
AllRun == exec.done = {k - 1 : k \in AggPos}

\* the same as C38 for as long as no assertion or crash has ended the program
CompletesWhileRunning == Enqueued ~> (~Running \/ (AllRun /\ exec.flush = "true"))

\* C38: under fair scheduling, once the task set emitted by Build has been
\* bulk-enqueued and nothing else is enqueued, the task of every aggregate
\* eventually runs to its end (no worker and no pumping thread waits for
\* ever for inbound signals, whatever the number of workers that take part)
\* and the caller that retries TryFlush eventually gets true.
C38_TaskSetCompletes == Enqueued ~> (AllRun /\ exec.flush = "true")

====
